---------------------------- MODULE Spec2Model ----------------------------
(***************************************************************************)
(* XBee packet protocol engine of the Make Controller firmware             *)
(* (firmware/trunk/controller/makingthings/xbee.c).                        *)
(*                                                                         *)
(* The receiver (XBee_GetPacket) is modelled one loop iteration per step,  *)
(* the sender (XBee_SendPacket) as one step.  The serial transport is a    *)
(* queue of bytes (rx) fed from the line (wire) and a record of the bytes  *)
(* written by the board (tx).                                              *)
(***************************************************************************)
EXTENDS Integers, Sequences, FiniteSets, TLC

VARIABLES
    pkt,     \* the XBeePacket the receiving caller pumps
    rx,      \* bytes readable in the serial driver (Serial_GetReadable/GetChar)
    wire,    \* bytes still on the line, not yet in the serial driver
    pc,      \* position of the receiving caller: "idle", "loop", "returned"
    ret,     \* value returned by the last XBee_GetPacket call
    last,    \* ghost: the last byte consumed, the packet before it, the
             \* length the current frame declared and its payload bytes stored
    got,     \* ghost: the packets reported so far (calls that returned 1)
    XBee,    \* the engine singleton: allocated, task created, serial active
    out,     \* the XBeePacket of the sending caller
    dlen,    \* the datalength the sending caller declares
    tx,      \* every byte written to the transport so far
    looped,  \* number of bytes of tx that a loopback wire has carried to rx
    scn,     \* ghost: how the byte stream was built and the packets it holds
    sret,    \* the values returned by the XBee_SendPacket calls so far
    cfg,     \* the task in XBeeConfig_SetPacketApiMode: its position and the
             \* time its Sleep ends
    now,     \* the time in milliseconds
    wlog,    \* ghost: for each byte of tx, who wrote it and when
    eng,     \* ghost: the XBee tasks alive, the XBee_SetActive calls made and
             \* whether a call has read through a NULL XBee pointer
    acall,   \* ghost: the last XBee_SetActive call, what it found and did
    dec,     \* a call of a decode function: the packet, the outputs asked
             \* for, their values before and after, and the result
    gact,    \* the result of the last XBee_GetActive call, none before it
    tsk,     \* the XBeeTask: its position in the function and, as ghosts,
             \* what it has done so far
    mk,      \* a call of a packet constructor or of a configuration helper:
             \* its arguments and what it built or sent
    sa,      \* the tasks inside XBee_SetActive( 1 ): the statement each has
             \* reached and, as a ghost, the engine state blocks allocated
    usr,     \* a task that pumps XBee_GetPacket on a packet of its own while
             \* XBeeTask pumps: its packet, its position, its last result
             \* and, as a ghost, the packets its calls returned
    snd      \* the tasks inside XBee_SendPacket: the packet of each, its
             \* datalength, and the locals size and p as far as the call got

\* the state of the receiving and the sending caller and of the transport
coreVars == <<pkt, rx, wire, pc, ret, last, got, XBee, out, dlen, tx, looped, scn>>

\* the state the other callers of the engine add to it
\* the ghosts of the activation calls
lifeVars == <<eng, acall>>

\* the state of the calls added to the model later
coVars == <<usr, snd>>

moreVars == <<gact, tsk, mk, sa, coVars>>

auxVars == <<sret, cfg, now, wlog, lifeVars, dec, moreVars>>

vars == <<coreVars, auxVars>>

---------------------------------------------------------------------------
(* Program constants (xbee.h)                                              *)

XBEE_PACKET_STARTBYTE == 126

XBEE_MAX_PACKET_SIZE == 100

XBEE_PACKET_RX_START == "RX_START"
XBEE_PACKET_RX_LENGTH_1 == "RX_LENGTH_1"
XBEE_PACKET_RX_LENGTH_2 == "RX_LENGTH_2"
XBEE_PACKET_RX_PAYLOAD == "RX_PAYLOAD"
XBEE_PACKET_RX_CRC == "RX_CRC"

\* the success code ("Zero on success") and the code of a failed activation
CONTROLLER_OK == 0
CONTROLLER_ERROR_SUBSYSTEM_INACTIVE == -1

XBEE_TX64 == 0
XBEE_TX16 == 1
XBEE_TXSTATUS == 137
XBEE_RX64 == 128
XBEE_RX16 == 129
XBEE_ATCOMMAND == 8
XBEE_ATCOMMANDQ == 9
XBEE_ATCOMMANDRESPONSE == 136
XBEE_IO64 == 130
XBEE_IO16 == 131

\* the number of input lines of a module
XBEE_INPUTS == 9

---------------------------------------------------------------------------
(* Bounds of the model                                                     *)

\* length of the free byte streams fed to the receiver
MaxStream == 6
\* capacity of the serial driver's receive queue
MaxRx == 2

\* longest payload of the frames that get one byte corrupted
MaxPayload == 5
\* most garbage bytes ahead of a frame
MaxGarbage == 4
\* longest payload of the frames delivered in pieces
MaxSplit == 3
\* largest datalength of the packets handed to the sender
MaxData == 2

\* length of the streams after which the line stalls
MaxStall == 5

\* the time up to which the clock runs
MaxClock == 1075

\* byte values the free streams are built from: the start byte, small
\* lengths and kinds, and the checksums that complete them
StreamBytes == {XBEE_PACKET_STARTBYTE, 0, 1, 254, 255}

---------------------------------------------------------------------------
(* Helpers                                                                 *)

RECURSIVE SumBytes(_)
SumBytes(s) == IF s = <<>> THEN 0 ELSE Head(s) + SumBytes(Tail(s))

RECURSIVE SeqsUpTo(_, _)
\* all sequences over S of length at most n
SeqsUpTo(S, n) ==
    IF n = 0 THEN {<<>>}
    ELSE LET shorter == SeqsUpTo(S, n - 1)
         IN  shorter \cup {Append(s, b) : s \in {t \in shorter : Len(t) = n - 1}, b \in S}

SeqsOfLen(S, n) == {s \in SeqsUpTo(S, n) : Len(s) = n}

Repeat(b, n) == [i \in 1..n |-> b]

Min(a, b) == IF a < b THEN a ELSE b

---------------------------------------------------------------------------
(* The XBeePacket structure and XBee_ResetPacket                           *)

\* An XBeePacket: buf[0] is apiId, the payload follows it; dataPtr is the
\* write cursor as an offset from the start of the structure.  overrun is
\* a ghost that records a write past the buffer.
EmptyPacket ==
    [ buf      |-> [i \in 0..(XBEE_MAX_PACKET_SIZE - 1) |-> 0],
      crc      |-> 0,
      dataPtr  |-> 0,
      rxState  |-> XBEE_PACKET_RX_START,
      length   |-> 0,
      index    |-> 0,
      overrun  |-> FALSE ]

XBee_ResetPacket(p) ==
    [p EXCEPT !.dataPtr = 0,
              !.crc = 0,
              !.rxState = XBEE_PACKET_RX_START,
              !.length = 0,
              !.index = 0,
              !.buf[0] = 0]

\* the payload a caller reads from a packet: length bytes from apiId on
Payload(p) == [i \in 1..Min(p.length, XBEE_MAX_PACKET_SIZE) |-> p.buf[i - 1]]

---------------------------------------------------------------------------
(* XBee_GetPacket: the handling of one received byte                       *)

\* a start byte outside RX_START resets the packet first
\* variant: the start byte is handled by the state switch alone
RxResync_NoReset(p, c) == p

RxResync(p, c) ==
    IF c = XBEE_PACKET_STARTBYTE /\ p.rxState # XBEE_PACKET_RX_START
    THEN XBee_ResetPacket(p)
    ELSE p

RxStart(p, c) ==
    IF c = XBEE_PACKET_STARTBYTE
    THEN [p EXCEPT !.rxState = XBEE_PACKET_RX_LENGTH_1]
    ELSE p

RxLength1(p, c) ==
    [p EXCEPT !.length = c * 256,
              !.rxState = XBEE_PACKET_RX_LENGTH_2]

\* variant: the length is stored as declared
RxLength2_NoClamp(p, c) ==
    [p EXCEPT !.length = p.length + c,
              !.rxState = XBEE_PACKET_RX_PAYLOAD]

RxLength2(p, c) ==
    [p EXCEPT !.length = IF p.length + c > XBEE_MAX_PACKET_SIZE
                         THEN XBEE_MAX_PACKET_SIZE
                         ELSE p.length + c,
              !.rxState = XBEE_PACKET_RX_PAYLOAD]

RxPayload(p, c) ==
    [p EXCEPT !.buf = IF p.dataPtr \in DOMAIN p.buf
                      THEN [p.buf EXCEPT ![p.dataPtr] = c]
                      ELSE p.buf,
              !.overrun = p.overrun \/ p.dataPtr \notin DOMAIN p.buf,
              !.dataPtr = p.dataPtr + 1,
              !.index = p.index + 1,
              !.rxState = IF p.index + 1 >= p.length
                          THEN XBEE_PACKET_RX_CRC
                          ELSE p.rxState,
              !.crc = (p.crc + c) % 256]

\* variant: the sum is tested before the checksum byte is added
RxCrcOk_BeforeAdd(p, c) == p.crc = 255

\* the checksum test of the RX_CRC case
RxCrcOk(p, c) == (p.crc + c) % 256 = 255

RxCrc(p, c) ==
    LET q == [p EXCEPT !.crc = (p.crc + c) % 256,
                       !.rxState = XBEE_PACKET_RX_START]
    IN  IF RxCrcOk(p, c) THEN q ELSE XBee_ResetPacket(q)

\* the packet after one iteration of the while loop on byte c
RxByte(p, c) ==
    LET q == RxResync(p, c)
    IN  CASE q.rxState = XBEE_PACKET_RX_START    -> RxStart(q, c)
          [] q.rxState = XBEE_PACKET_RX_LENGTH_1 -> RxLength1(q, c)
          [] q.rxState = XBEE_PACKET_RX_LENGTH_2 -> RxLength2(q, c)
          [] q.rxState = XBEE_PACKET_RX_PAYLOAD  -> RxPayload(q, c)
          [] q.rxState = XBEE_PACKET_RX_CRC      -> RxCrc(q, c)

\* variant: only a good checksum ends the call
RxReturns_OnlyOnPacket(p, c) ==
    /\ RxResync(p, c).rxState = XBEE_PACKET_RX_CRC
    /\ (RxResync(p, c).crc + c) % 256 = 255

\* whether that iteration returns from XBee_GetPacket, and with what
RxReturns(p, c) == RxResync(p, c).rxState = XBEE_PACKET_RX_CRC

RxResult(p, c) == IF RxCrcOk(RxResync(p, c), c) THEN 1 ELSE 0

\* ghost bookkeeping of an iteration: n counts the bytes consumed, declared
\* is the unclamped length of the two length bytes, w counts the payload
\* bytes stored since the length field was read
GhostAfter(l, p, c) ==
    LET s == RxResync(p, c).rxState
    IN  [ n        |-> l.n + 1,
          c        |-> c,
          pre      |-> p,
          declared |-> IF s = XBEE_PACKET_RX_LENGTH_2 THEN p.length + c ELSE l.declared,
          w        |-> IF s = XBEE_PACKET_RX_LENGTH_2 THEN 0
                       ELSE IF s = XBEE_PACKET_RX_PAYLOAD THEN l.w + 1
                       ELSE l.w ]

---------------------------------------------------------------------------
(* XBee_SetActive( 1 ), as called on entry by the receiver and the sender  *)

\* alloc: XBee is not NULL; task: XBee->XBeeTaskPtr is not NULL; serial:
\* the serial subsystem is active
Inactive == [alloc |-> FALSE, task |-> FALSE, serial |-> FALSE]

\* what a call finds: whether Serial_SetActive( 1 ) succeeds, whether
\* TaskCreate returns a task, and whether the word read through a NULL
\* XBee pointer is zero
AllOk == [serial |-> TRUE, task |-> TRUE, zero |-> TRUE]

Envs == [serial : BOOLEAN, task : BOOLEAN, zero : BOOLEAN]

\* variant: the test for an engine that is already there is missing
XBee_SetActiveOn_NoTest(x, env) ==
    IF ~env.serial
    THEN [x |-> x, ret |-> CONTROLLER_ERROR_SUBSYSTEM_INACTIVE,
          created |-> 0, deleted |-> 0, fault |-> FALSE]
    ELSE [x |-> [alloc |-> TRUE, task |-> env.task, serial |-> TRUE],
          ret |-> CONTROLLER_OK,
          created |-> IF env.task THEN 1 ELSE 0, deleted |-> 0, fault |-> FALSE]

\* the state != 0 branch
XBee_SetActiveOn(x, env) ==
    IF x.alloc
    THEN [x |-> x, ret |-> CONTROLLER_OK, created |-> 0, deleted |-> 0, fault |-> FALSE]
    ELSE IF ~env.serial
    THEN [x |-> x, ret |-> CONTROLLER_ERROR_SUBSYSTEM_INACTIVE,
          created |-> 0, deleted |-> 0, fault |-> FALSE]
    ELSE [x |-> [alloc |-> TRUE, task |-> env.task, serial |-> TRUE],
          ret |-> CONTROLLER_OK,
          created |-> IF env.task THEN 1 ELSE 0, deleted |-> 0, fault |-> FALSE]

\* the state == 0 branch: XBee->XBeeTaskPtr is read before XBee is tested;
\* with XBee NULL the read yields zero (nothing more happens) or another
\* word, which is then handed to TaskDelete
XBee_SetActiveOff(x, env) ==
    [x |-> Inactive,
     ret |-> CONTROLLER_OK,
     created |-> 0,
     deleted |-> IF x.alloc /\ x.task THEN 1 ELSE 0,
     fault |-> ~x.alloc /\ ~env.zero]

XBee_SetActive(x, state, env) ==
    IF state # 0 THEN XBee_SetActiveOn(x, env) ELSE XBee_SetActiveOff(x, env)

\* no XBee_SetActive call was made
NoCall == [state |-> -1, env |-> AllOk, pre |-> Inactive, post |-> Inactive,
           ret |-> CONTROLLER_OK, created |-> 0, deleted |-> 0, rxState |-> "none"]

\* XBee_SetActive( 1 ) on a board where transport and task creation work
XBee_SetActive1(x) == XBee_SetActive(x, 1, AllOk).x

---------------------------------------------------------------------------
(* Steps of the receiving side                                             *)

\* a byte leaves the line and becomes readable in the serial driver
Serial_Arrive ==
    /\ wire # <<>>
    /\ Len(rx) < MaxRx
    /\ rx' = Append(rx, Head(wire))
    /\ wire' = Tail(wire)
    /\ UNCHANGED <<pkt, pc, ret, last, got, XBee, out, dlen, tx, looped, scn, auxVars>>

\* XBee_GetPacket is entered: the engine is activated
GetPacket_Enter ==
    /\ pc \in {"idle", "returned"}
    /\ pc' = "loop"
    /\ XBee' = XBee_SetActive1(XBee)
    /\ UNCHANGED <<pkt, rx, wire, ret, last, got, out, dlen, tx, looped, scn, auxVars>>

\* variant: with nothing readable the call waits for the next byte
GetPacket_Dry_Waits ==
    /\ rx # <<>>
    /\ UNCHANGED <<pc, ret, pkt, rx, last, got>>

\* the while condition finds nothing readable: return 0
GetPacket_Dry ==
    /\ pc' = "returned"
    /\ ret' = 0
    /\ UNCHANGED <<pkt, rx, last, got>>

\* one test of the while condition and, if a byte is readable, one iteration
GetPacket_Loop ==
    /\ pc = "loop"
    /\ IF rx = <<>>
       THEN GetPacket_Dry
       ELSE LET c == Head(rx)
                q == RxByte(pkt, c)
            IN  /\ rx' = Tail(rx)
                /\ pkt' = q
                /\ last' = GhostAfter(last, pkt, c)
                /\ IF RxReturns(pkt, c)
                   THEN /\ pc' = "returned"
                        /\ ret' = RxResult(pkt, c)
                        /\ got' = IF RxResult(pkt, c) = 1
                                  THEN Append(got, [length |-> q.length,
                                                    bytes |-> Payload(q)])
                                  ELSE got
                   ELSE UNCHANGED <<pc, ret, got>>
    /\ UNCHANGED <<wire, XBee, out, dlen, tx, looped, scn, auxVars>>

\* the caller clears the packet after a call that returned 1
Caller_Reset ==
    /\ pc = "returned"
    /\ ret = 1
    /\ pkt' = XBee_ResetPacket(pkt)
    /\ pc' = "idle"
    /\ UNCHANGED <<rx, wire, ret, last, got, XBee, out, dlen, tx, looped, scn, auxVars>>

NextRx ==
    \/ Serial_Arrive
    \/ GetPacket_Enter
    \/ GetPacket_Loop
    \/ Caller_Reset

---------------------------------------------------------------------------
(* The receiver on arbitrary byte streams                                  *)

NoPacket == [mem |-> <<>>, crc |-> 0]

\* what the caller of a decode function holds in its output variables
OldOuts ==
    [ src16 |-> 7, src64 |-> Repeat(7, 8), sigstrength |-> 7, options |-> 7,
      data |-> 0, datalength |-> 7, samples |-> Repeat(7, XBEE_INPUTS),
      frameID |-> 7, status |-> 7, command |-> <<7, 7>> ]

\* no decode function was called
NoDecode ==
    [ xbp |-> XBee_ResetPacket(EmptyPacket), want |-> {}, before |-> OldOuts,
      fn |-> "none", ret |-> FALSE, after |-> OldOuts ]

\* the XBeeTask does not exist
NoTask ==
    [ pc |-> "none", wake |-> 0, in |-> <<>>,
      pumps |-> 0, yields |-> 0, resets |-> 0, configs |-> 0,
      atReturn |-> <<>> ]

\* the tasks that call XBee_SetActive( 1 ) at the same time
NumCallers == 3

\* no task is inside XBee_SetActive
NoCallers == [pc |-> [c \in 1..NumCallers |-> "out"], blocks |-> 0]

\* no other task pumps
NoUser ==
    [ pkt |-> <<>>, pc |-> "none", ret |-> 0, n |-> 0, got |-> <<>> ]

\* the tasks that call XBee_SendPacket at the same time
NumSenders == 2

\* no task is inside XBee_SendPacket
NoSenders ==
    [c \in 1..NumSenders |-> [pc |-> "out", mem |-> <<>>, d |-> 0, size |-> 0, i |-> 0, crc |-> 0]]

\* no packet constructor was called
NoBuild ==
    [ fn |-> "none", arg |-> 0, dest |-> <<>>, data |-> <<>>, mem |-> <<>>,
      length |-> 0, ok |-> FALSE, sent |-> <<>>, codes |-> {},
      pre |-> [alloc |-> FALSE, task |-> FALSE, serial |-> FALSE] ]

\* the other callers of the engine have not run
InitOthers ==
    /\ sret = <<>>
    /\ cfg = [pc |-> "idle", wake |-> 0]
    /\ now = 0
    /\ wlog = <<>>
    /\ eng = [running |-> 0, calls |-> 0, fault |-> FALSE]
    /\ acall = NoCall
    /\ gact = <<>>
    /\ sa = NoCallers
    /\ usr = NoUser
    /\ snd = NoSenders
    /\ tsk = NoTask
    /\ mk = NoBuild

InitAux ==
    /\ InitOthers
    /\ dec = NoDecode

InitRx(scenarios) ==
    /\ pkt = XBee_ResetPacket(EmptyPacket)
    /\ rx = <<>>
    /\ \E s \in scenarios :
          /\ wire = s.stream
          /\ scn = [kind |-> s.kind, expect |-> s.expect]
    /\ pc = "idle"
    /\ ret = 0
    /\ last = [n |-> 0, c |-> 0, pre |-> XBee_ResetPacket(EmptyPacket),
               declared |-> 0, w |-> 0]
    /\ got = <<>>
    /\ XBee = Inactive
    /\ out = NoPacket
    /\ dlen = 0
    /\ tx = <<>>
    /\ looped = 0
    /\ InitAux

\* the bytes of a frame around a payload, with the checksum that makes the
\* sum of payload and checksum 0xFF modulo 256
FrameCk(payload) == 255 - (SumBytes(payload) % 256)

Frame(len, payload) ==
    <<XBEE_PACKET_STARTBYTE, (len \div 256) % 256, len % 256>> \o payload \o <<FrameCk(payload)>>

\* frames that declare a length at, above and far above the capacity and
\* carry one byte more than the capacity
LongStreams ==
    { <<XBEE_PACKET_STARTBYTE, l[1], l[2]>> \o Repeat(1, XBEE_MAX_PACKET_SIZE) \o <<k, 1>> :
        l \in {<<0, XBEE_MAX_PACKET_SIZE>>, <<0, XBEE_MAX_PACKET_SIZE + 1>>, <<1, 0>>, <<255, 255>>},
        k \in {FrameCk(Repeat(1, XBEE_MAX_PACKET_SIZE)), 1} }

FreeScenarios ==
    { [kind |-> "free", stream |-> s, expect |-> <<>>] :
        s \in SeqsOfLen(StreamBytes, MaxStream) \cup LongStreams }

Init == InitRx(FreeScenarios)

Spec == Init /\ [][NextRx]_vars

---------------------------------------------------------------------------
(* XBee_SendPacket and the packet constructors                             *)

\* variant: the RX64 case label sits with the 16-bit kinds
XBee_PayloadSize_Rx64Short(apiId, datalength) ==
    CASE apiId = XBEE_TX64 -> datalength + 11
      [] apiId \in {XBEE_RX64, XBEE_RX16, XBEE_TX16, XBEE_ATCOMMANDRESPONSE} -> datalength + 5
      [] apiId = XBEE_TXSTATUS -> 3
      [] apiId \in {XBEE_ATCOMMAND, XBEE_ATCOMMANDQ} -> datalength + 4
      [] OTHER -> 0

\* variant: the default case leaves size at datalength
XBee_PayloadSize_DefaultKeeps(apiId, datalength) ==
    CASE apiId \in {XBEE_RX64, XBEE_TX64} -> datalength + 11
      [] apiId \in {XBEE_RX16, XBEE_TX16, XBEE_ATCOMMANDRESPONSE} -> datalength + 5
      [] apiId = XBEE_TXSTATUS -> 3
      [] apiId \in {XBEE_ATCOMMAND, XBEE_ATCOMMANDQ} -> datalength + 4
      [] OTHER -> datalength

\* the payload size the switch on apiId computes
XBee_PayloadSize(apiId, datalength) ==
    CASE apiId \in {XBEE_RX64, XBEE_TX64} -> datalength + 11
      [] apiId \in {XBEE_RX16, XBEE_TX16, XBEE_ATCOMMANDRESPONSE} -> datalength + 5
      [] apiId = XBEE_TXSTATUS -> 3
      [] apiId \in {XBEE_ATCOMMAND, XBEE_ATCOMMANDQ} -> datalength + 4
      [] OTHER -> 0

\* the two length bytes, most significant first
SendLengthBytes(size) == <<(size \div 256) % 256, size % 256>>

\* variant: the crc field is not cleared before the payload is streamed
SendCrcStart_Stale(p) == p.crc

\* packet->crc = 0 before the payload is streamed
SendCrcStart(p) == 0

\* the bytes streamed from the packet, starting at apiId
SendPayload(p, size) == SubSeq(p.mem, 1, size)

\* crc after the payload loop (uint8)
SendCrc(p, size) == (SendCrcStart(p) + SumBytes(SendPayload(p, size))) % 256

\* everything one XBee_SendPacket call writes with Serial_SetChar
SendBytes(p, datalength) ==
    LET size == XBee_PayloadSize(p.mem[1], datalength)
    IN  <<XBEE_PACKET_STARTBYTE>> \o SendLengthBytes(size)
          \o SendPayload(p, size) \o <<255 - SendCrc(p, size)>>

\* XBee_CreateATCommandPacket, as the bytes of the structure from apiId on
XBee_CreateATCommandPacket(frameID, cmd, params, datalength) ==
    <<XBEE_ATCOMMAND, frameID, cmd[1], cmd[2]>> \o SubSeq(params, 1, datalength)

\* bytes of a packet of each kind before its variable tail (xbee.h layout)
FixedBytes(apiId) ==
    CASE apiId \in {XBEE_TX64, XBEE_RX64} -> 11
      [] apiId \in {XBEE_TX16, XBEE_RX16, XBEE_ATCOMMANDRESPONSE} -> 5
      [] apiId = XBEE_TXSTATUS -> 3
      [] apiId \in {XBEE_ATCOMMAND, XBEE_ATCOMMANDQ} -> 4
      [] apiId = XBEE_IO64 -> 14
      [] apiId = XBEE_IO16 -> 8

\* a packet a caller filled in field by field: every fixed field byte is h
Populated(apiId, h, data) == <<apiId>> \o Repeat(h, FixedBytes(apiId) - 1) \o data

SupportedKinds ==
    {XBEE_TX64, XBEE_TX16, XBEE_TXSTATUS, XBEE_RX64, XBEE_RX16,
     XBEE_ATCOMMAND, XBEE_ATCOMMANDQ, XBEE_ATCOMMANDRESPONSE}

\* the call itself, on an engine that activates
XBee_SendPacketBody ==
    /\ XBee' = XBee_SetActive1(XBee)
    /\ tx' = tx \o SendBytes(out, dlen)
    /\ out' = [out EXCEPT !.crc = SendCrc(out, XBee_PayloadSize(out.mem[1], dlen))]
    /\ sret' = Append(sret, CONTROLLER_OK)

XBee_SendPacket ==
    /\ tx = <<>>
    /\ XBee_SendPacketBody
    /\ UNCHANGED <<pkt, rx, wire, pc, ret, last, got, dlen, looped, scn, cfg, now, wlog, lifeVars, dec, moreVars>>

\* the transport's output is wired to its input: a written byte becomes
\* readable
Serial_Loopback ==
    /\ looped < Len(tx)
    /\ Len(rx) < MaxRx
    /\ rx' = Append(rx, tx[looped + 1])
    /\ looped' = looped + 1
    /\ UNCHANGED <<pkt, wire, pc, ret, last, got, XBee, out, dlen, tx, scn, auxVars>>

NextLoop ==
    \/ XBee_SendPacket
    \/ Serial_Loopback
    \/ GetPacket_Enter
    \/ GetPacket_Loop
    \/ Caller_Reset

\* values of the fixed fields, of the data bytes and of the crc field the
\* sender finds in the packet
HeaderVals == {0, 255}
\* kind tags that name no packet kind
UnknownKinds == {2, 255}
DataVals == {0, 100, XBEE_PACKET_STARTBYTE}
StaleCrcs == {0, 90}

\* the packets handed to the sender with their datalength
SendInputs ==
    { [mem |-> Populated(k, h, data), d |-> Len(data)] :
        k \in (SupportedKinds \ {XBEE_TXSTATUS}) \cup {XBEE_IO16, XBEE_IO64},
        h \in HeaderVals, data \in SeqsUpTo(DataVals, MaxData) }
    \cup
    { [mem |-> Populated(XBEE_TXSTATUS, h, <<>>), d |-> d] :
        h \in HeaderVals, d \in 0..MaxData }
    \cup
    { [mem |-> XBee_CreateATCommandPacket(f, <<73, 82>>, params, Len(params)), d |-> Len(params)] :
        f \in {0, 1}, params \in SeqsUpTo(DataVals, MaxData) }
    \cup
    { [mem |-> <<k>> \o data, d |-> Len(data)] :
        k \in UnknownKinds, data \in SeqsUpTo(DataVals, MaxData) }

InitLoop ==
    /\ pkt = XBee_ResetPacket(EmptyPacket)
    /\ rx = <<>>
    /\ wire = <<>>
    /\ pc = "idle"
    /\ ret = 0
    /\ last = [n |-> 0, c |-> 0, pre |-> XBee_ResetPacket(EmptyPacket),
               declared |-> 0, w |-> 0]
    /\ got = <<>>
    /\ XBee = Inactive
    /\ \E i \in SendInputs, k \in StaleCrcs :
          /\ out = [mem |-> i.mem, crc |-> k]
          /\ dlen = i.d
    /\ tx = <<>>
    /\ looped = 0
    /\ scn = [kind |-> "loop", expect |-> <<>>]
    /\ InitAux

SpecLoop == InitLoop /\ [][NextLoop]_vars

---------------------------------------------------------------------------
(* Properties of the sender and of the round trip, checked under SpecLoop  *)

\* the frame was sent, every byte of it was carried to the receiver and
\* consumed, and the call that consumed the last byte has returned
LoopDrained ==
    /\ tx # <<>>
    /\ looped = Len(tx)
    /\ rx = <<>>
    /\ pc # "loop"

\* C1: for every kind the sender sizes, every datalength and every value of
\* the payload bytes, the frame XBee_SendPacket emits makes XBee_GetPacket
\* on a reset packet return 1 with the same kind and payload bytes and
\* with length equal to the emitted payload length.
C1_RoundTrip ==
    ( LoopDrained /\ out.mem[1] \in SupportedKinds )
    => LET size == XBee_PayloadSize(out.mem[1], dlen)
       IN  got = << [length |-> size, bytes |-> SubSeq(out.mem, 1, size)] >>

\* C9: the two length bytes encode datalength + 11 for TX64 and RX64,
\* + 5 for TX16, RX16 and AT response, + 4 for the AT commands and 3 for
\* TX status whatever datalength is.
C9_SentLength ==
    ( tx # <<>> /\ out.mem[1] \in SupportedKinds )
    => tx[2] * 256 + tx[3] =
         ( CASE out.mem[1] = XBEE_TX64 -> dlen + 11
             [] out.mem[1] = XBEE_RX64 -> dlen + 11
             [] out.mem[1] = XBEE_TX16 -> dlen + 5
             [] out.mem[1] = XBEE_RX16 -> dlen + 5
             [] out.mem[1] = XBEE_ATCOMMANDRESPONSE -> dlen + 5
             [] out.mem[1] = XBEE_ATCOMMAND -> dlen + 4
             [] out.mem[1] = XBEE_ATCOMMANDQ -> dlen + 4
             [] out.mem[1] = XBEE_TXSTATUS -> 3 )

\* a TX64 packet without data was sent with payload length 11
C9_Witness ==
    /\ tx # <<>>
    /\ out.mem[1] = XBEE_TX64
    /\ dlen = 0
    /\ tx[2] = 0
    /\ tx[3] = 11

\* C10: a send writes the start byte, the payload length high then low,
\* that many bytes of the packet from apiId on, and one checksum byte equal
\* to 0xFF minus the payload sum modulo 256, so payload sum plus checksum
\* is 0xFF modulo 256.
C10_FrameShape ==
    tx # <<>>
    => LET size == tx[2] * 256 + tx[3]
           body == SubSeq(tx, 4, 3 + size)
       IN  /\ tx[1] = XBEE_PACKET_STARTBYTE
           /\ Len(tx) = size + 4
           /\ body = SubSeq(out.mem, 1, size)
           /\ tx[Len(tx)] = 255 - (SumBytes(body) % 256)
           /\ (SumBytes(body) + tx[Len(tx)]) % 256 = 255

\* a TX16 frame with data bytes and a checksum other than 0xFF was sent
C10_Witness ==
    /\ tx # <<>>
    /\ out.mem[1] = XBEE_TX16
    /\ dlen = MaxData
    /\ Len(tx) = 4 + 5 + MaxData
    /\ tx[Len(tx)] # 255

\* the bytes of a frame that declares no payload
EmptyFrame == <<XBEE_PACKET_STARTBYTE, 0, 0, 255>>

---------------------------------------------------------------------------
(* The receiver on streams built around valid frames                       *)

\* what a caller reads from a packet that carries payload p
PacketOf(p) == [length |-> Len(p), bytes |-> p]

ValidFrame(p) == Frame(Len(p), p)

\* payloads of the frames that get corrupted, the values a byte is changed
\* to, and the frames that follow a corrupted frame
PayVals == {0, 1, 254}
CorruptVals == {XBEE_PACKET_STARTBYTE, 2, 85}
FollowPayloads == {<<1, 0>>, <<8>>}

\* a valid frame with one payload byte or its checksum byte changed to
\* another value, followed by a valid frame
CorruptScenarios ==
    { [kind |-> "corrupt",
       stream |-> [ValidFrame(x[1]) EXCEPT ![x[2]] = x[3]] \o ValidFrame(x[4]),
       expect |-> <<PacketOf(x[4])>>] :
        x \in { y \in (SeqsUpTo(PayVals, MaxPayload) \ {<<>>}) \X (4..(MaxPayload + 4))
                        \X CorruptVals \X FollowPayloads :
                  /\ y[2] <= Len(y[1]) + 4
                  /\ ValidFrame(y[1])[y[2]] # y[3] } }

\* garbage bytes (never the start byte) and payloads of the valid frame
GarbVals == {0, 1, 254}
ResyncPayloads == {<<1, 0>>, <<8>>, <<XBEE_PACKET_STARTBYTE>>, <<1, XBEE_PACKET_STARTBYTE>>}

\* START, garbage, START, valid frame: the second start byte is the frame's
\* own (k = 0) or one more ahead of it (k = 1)
ResyncScenarios ==
    { [kind |-> "resync",
       stream |-> <<XBEE_PACKET_STARTBYTE>> \o x[1] \o Repeat(XBEE_PACKET_STARTBYTE, x[2])
                    \o ValidFrame(x[3]),
       expect |-> <<PacketOf(x[3])>>] :
        x \in SeqsUpTo(GarbVals, MaxGarbage) \X {0, 1} \X ResyncPayloads }

\* one valid frame, delivered in every possible way over successive calls
SplitVals == {0, 1, XBEE_PACKET_STARTBYTE}

SplitScenarios ==
    { [kind |-> "split", stream |-> ValidFrame(p), expect |-> <<PacketOf(p)>>] :
        p \in SeqsUpTo(SplitVals, MaxSplit) \ {<<>>} }

InitFrames == InitRx(CorruptScenarios \cup ResyncScenarios \cup SplitScenarios)

SpecFrames == InitFrames /\ [][NextRx]_vars

\* the whole stream was consumed and the call that took its last byte is over
RxDrained ==
    /\ wire = <<>>
    /\ rx = <<>>
    /\ pc # "loop"

\* C2: after a valid frame with exactly one payload byte or its checksum
\* byte changed to another value, followed by a valid frame, no call has
\* returned 1 for the corrupted frame or a part of it and the following
\* frame is the one packet reported, intact.
C2_ChecksumRejects ==
    ( scn.kind = "corrupt" /\ RxDrained ) => got = scn.expect

\* C3: on START, garbage without start bytes, START, valid frame, pumping
\* until the stream is drained returns 1 exactly once and the packet
\* reported is the valid frame.
C3_Resync ==
    ( scn.kind = "resync" /\ RxDrained )
    => ( Len(got) = 1 /\ got[1] = scn.expect[1] )

\* C4: however the bytes of a valid frame are split over successive calls
\* (no reset in between), the call that takes the last byte returns 1 and
\* the packet holds the frame's kind, length and payload, as after a
\* delivery in one call.
C4_IncrementalFeed ==
    ( scn.kind = "split" /\ RxDrained )
    => ( /\ got = scn.expect
         /\ last.pre.rxState = XBEE_PACKET_RX_CRC )

---------------------------------------------------------------------------
(* Properties of the receiver, checked under Spec                          *)

\* the step consumed one byte: the byte is last'.c, the packet before it pkt
Consumed == last'.n = last.n + 1

\* C5: when the two length bytes combine to more than XBEE_MAX_PACKET_SIZE
\* the packet's length becomes exactly XBEE_MAX_PACKET_SIZE, the receiver
\* goes on in RX_PAYLOAD without returning, and no more than
\* XBEE_MAX_PACKET_SIZE bytes of that frame are stored in the packet.
C5_OversizeClamped ==
    [][ /\ ( /\ Consumed
             /\ pkt.rxState = XBEE_PACKET_RX_LENGTH_2
             /\ last'.c # XBEE_PACKET_STARTBYTE
             /\ pkt.length + last'.c > XBEE_MAX_PACKET_SIZE )
           => ( /\ pkt'.length = XBEE_MAX_PACKET_SIZE
                /\ pkt'.rxState = XBEE_PACKET_RX_PAYLOAD
                /\ pkt'.buf = pkt.buf
                /\ pc' = "loop" )
        /\ last'.declared > XBEE_MAX_PACKET_SIZE
           => ( /\ last'.w <= XBEE_MAX_PACKET_SIZE
                /\ ~pkt'.overrun ) ]_vars

\* a frame that declared more than the capacity has had its clamped payload
\* stored and the receiver waits for its checksum
C5_Witness ==
    /\ last.declared > XBEE_MAX_PACKET_SIZE
    /\ last.w = XBEE_MAX_PACKET_SIZE
    /\ pkt.length = XBEE_MAX_PACKET_SIZE
    /\ pkt.rxState = XBEE_PACKET_RX_CRC

\* C6: in every receiver state a consumed start byte leaves the receiver in
\* RX_LENGTH_1 without a return from the call, a frame in progress being
\* dropped (packet cleared); the next two bytes (as long as they are not
\* start bytes themselves) become the high and low byte of the new length.
C6_StartByteResync ==
    [][ Consumed =>
        /\ last'.c = XBEE_PACKET_STARTBYTE
           => ( /\ pkt'.rxState = XBEE_PACKET_RX_LENGTH_1
                /\ pc' = "loop"
                /\ got' = got
                /\ pkt.rxState # XBEE_PACKET_RX_START
                   => ( /\ pkt'.length = 0 /\ pkt'.index = 0 /\ pkt'.crc = 0
                        /\ pkt'.dataPtr = 0 /\ pkt'.buf[0] = 0 ) )
        /\ ( pkt.rxState = XBEE_PACKET_RX_LENGTH_1 /\ last'.c # XBEE_PACKET_STARTBYTE )
           => ( /\ pkt'.rxState = XBEE_PACKET_RX_LENGTH_2
                /\ pkt'.length = 256 * last'.c )
        /\ ( pkt.rxState = XBEE_PACKET_RX_LENGTH_2 /\ last'.c # XBEE_PACKET_STARTBYTE )
           => ( /\ pkt'.rxState = XBEE_PACKET_RX_PAYLOAD
                /\ pkt'.length = Min(pkt.length + last'.c, XBEE_MAX_PACKET_SIZE) ) ]_vars

\* a start byte arrived where the checksum of a frame was due
C6_Witness ==
    /\ last.n > 0
    /\ last.c = XBEE_PACKET_STARTBYTE
    /\ last.pre.rxState = XBEE_PACKET_RX_CRC
    /\ last.pre.index > 0
    /\ pkt.rxState = XBEE_PACKET_RX_LENGTH_1

\* C7: in RX_CRC the byte is added to the running sum; a sum of 0xFF modulo
\* 256 makes the call return 1 with the receiver in RX_START and kind,
\* length and payload as received, any other sum resets the packet and
\* makes the call return 0; the call returns 1 in no other situation.
C7_ChecksumDecides ==
    [][ /\ ( Consumed /\ pkt.rxState = XBEE_PACKET_RX_CRC
                      /\ last'.c # XBEE_PACKET_STARTBYTE )
           => IF (pkt.crc + last'.c) % 256 = 255
              THEN /\ pc' = "returned" /\ ret' = 1
                   /\ pkt'.rxState = XBEE_PACKET_RX_START
                   /\ pkt'.buf = pkt.buf
                   /\ pkt'.length = pkt.length
              ELSE /\ pc' = "returned" /\ ret' = 0
                   /\ pkt'.rxState = XBEE_PACKET_RX_START
                   /\ pkt'.length = 0 /\ pkt'.index = 0 /\ pkt'.crc = 0
                   /\ pkt'.dataPtr = 0 /\ pkt'.buf[0] = 0
        /\ ( pc = "loop" /\ pc' = "returned" /\ ret' = 1 )
           => ( /\ Consumed
                /\ pkt.rxState = XBEE_PACKET_RX_CRC
                /\ last'.c # XBEE_PACKET_STARTBYTE
                /\ (pkt.crc + last'.c) % 256 = 255 ) ]_vars

\* a call has just returned 1 on the checksum byte of a frame with payload
C7_Witness ==
    /\ pc = "returned"
    /\ ret = 1
    /\ last.pre.rxState = XBEE_PACKET_RX_CRC
    /\ pkt.length > 0
    /\ got # <<>>

\* C8: when the receiver enters RX_CRC exactly `length` bytes after the
\* length field have been stored, for every declared length, 0 included.
C8_PayloadCounting ==
    pkt.rxState = XBEE_PACKET_RX_CRC => last.w = pkt.length

\* the step is the return of an XBee_GetPacket call
Returns == pc = "loop" /\ pc' = "returned"

\* the step consumed the byte that stands where a frame's checksum is due
TookChecksum ==
    /\ Consumed
    /\ pkt.rxState = XBEE_PACKET_RX_CRC
    /\ last'.c # XBEE_PACKET_STARTBYTE

---------------------------------------------------------------------------
(* The receiver on a line that stalls                                      *)

\* the start byte and the bytes of the frame 7E 00 01 01 FE
StallBytes == {XBEE_PACKET_STARTBYTE, 0, 1, 254}

\* every stream of at most MaxStall bytes, after which nothing more arrives
StallScenarios ==
    { [kind |-> "stall", stream |-> s, expect |-> <<>>] :
        s \in SeqsUpTo(StallBytes, MaxStall) }

InitStall == InitRx(StallScenarios)

\* the task that called XBee_GetPacket keeps running its loop
SpecStall == InitStall /\ [][NextRx]_vars /\ WF_vars(GetPacket_Loop)

\* C13: every XBee_GetPacket call terminates; each byte it consumes was
\* readable in the transport; and when nothing is readable, in whatever
\* receiver state, the call returns 0 at once and leaves the packet as it
\* is instead of waiting for more bytes.
C13_NeverBlocks ==
    /\ [][ /\ Consumed => ( rx # <<>> /\ last'.c = Head(rx) /\ rx' = Tail(rx) )
           /\ ( pc = "loop" /\ rx = <<>> /\ rx' = <<>> )
              => ( pc' = "returned" /\ ret' = 0 /\ pkt' = pkt ) ]_vars
    /\ ( pc = "loop" ~> pc = "returned" )

\* the line stalled inside a payload and the call returned 0 there
C13_Witness ==
    /\ wire = <<>>
    /\ rx = <<>>
    /\ pc = "returned"
    /\ ret = 0
    /\ last.n > 0
    /\ pkt.rxState = XBEE_PACKET_RX_PAYLOAD
    /\ pkt.index > 0

---------------------------------------------------------------------------
(* XBeeConfig_SetPacketApiMode                                             *)

\* the argument of Sleep between the escape sequence and the command
GuardSleepMs == 1025

\* size of the buffer the strings are formatted into
ConfigBufSize == 50

\* "+++"
EscapeSequence == <<43, 43, 43>>

\* the character %x prints for one hexadecimal digit
HexDigit(d) == IF d < 10 THEN 48 + d ELSE 87 + d

RECURSIVE HexDigits(_)
\* what %x prints for n
HexDigits(n) ==
    IF n < 16 THEN <<HexDigit(n)>>
    ELSE HexDigits(n \div 16) \o <<HexDigit(n % 16)>>

\* snprintf into a buffer of size bytes, then strlen of the buffer
Snprintf(size, str) == SubSeq(str, 1, Min(Len(str), size - 1))

\* snprintf( buf, 50, "ATAP %x,CN\r", mode )
ApiModeCommand(mode) ==
    Snprintf(ConfigBufSize, <<65, 84, 65, 80, 32>> \o HexDigits(mode) \o <<44, 67, 78, 13>>)

\* Serial_Write of the bytes of str by task who at the present time
Written(str, who) == [i \in 1..Len(str) |-> [by |-> who, t |-> now]]

\* Sleep( ms ): the time before which the task does not run again
Sleep(ms) == now + ms

\* variant: the command follows the escape sequence without a pause
ConfigWake_NoSleep == now

\* Sleep( 1025 ) after the escape sequence
ConfigWake == Sleep(GuardSleepMs)

\* up to the Sleep: activation, then the escape sequence is written
Config_Begin ==
    /\ cfg.pc = "idle"
    /\ \E env \in Envs :
          LET a == XBee_SetActive(XBee, 1, env)
          IN  /\ XBee' = a.x
              /\ IF a.ret # CONTROLLER_OK
                 THEN /\ cfg' = [cfg EXCEPT !.pc = "done"]
                      /\ UNCHANGED <<tx, wlog>>
                 ELSE /\ tx' = tx \o Snprintf(ConfigBufSize, EscapeSequence)
                      /\ wlog' = wlog \o Written(Snprintf(ConfigBufSize, EscapeSequence), "config")
                      /\ cfg' = [pc |-> "sleeping", wake |-> ConfigWake]
    /\ UNCHANGED <<pkt, rx, wire, pc, ret, last, got, out, dlen, looped, scn, sret, now, lifeVars, dec, moreVars>>

\* after the Sleep: the command is written and the function returns
Config_Resume ==
    /\ cfg.pc = "sleeping"
    /\ now >= cfg.wake
    /\ tx' = tx \o ApiModeCommand(1)
    /\ wlog' = wlog \o Written(ApiModeCommand(1), "config")
    /\ cfg' = [cfg EXCEPT !.pc = "done"]
    /\ UNCHANGED <<pkt, rx, wire, pc, ret, last, got, XBee, out, dlen, looped, scn, sret, now, lifeVars, dec, moreVars>>

\* steps the clock makes between two steps of the tasks
TickSteps == {25, 1000}

Tick ==
    /\ \E d \in TickSteps :
          /\ now + d <= MaxClock
          /\ now' = now + d
    /\ UNCHANGED <<coreVars, sret, cfg, wlog, lifeVars, dec, moreVars>>

\* another task sends a packet, at any time
User_SendPacket ==
    /\ sret = <<>>
    /\ XBee_SendPacketBody
    /\ wlog' = wlog \o Written(SendBytes(out, dlen), "user")
    /\ UNCHANGED <<pkt, rx, wire, pc, ret, last, got, dlen, looped, scn, cfg, now, lifeVars, dec, moreVars>>

NextConfig ==
    \/ Config_Begin
    \/ Config_Resume
    \/ Tick
    \/ User_SendPacket

\* the engine before the call and the packet the other task sends
InitConfig ==
    /\ pkt = XBee_ResetPacket(EmptyPacket)
    /\ rx = <<>>
    /\ wire = <<>>
    /\ pc = "idle"
    /\ ret = 0
    /\ last = [n |-> 0, c |-> 0, pre |-> XBee_ResetPacket(EmptyPacket),
               declared |-> 0, w |-> 0]
    /\ got = <<>>
    /\ XBee \in {Inactive, XBee_SetActive1(Inactive)}
    /\ \E data \in {<<>>, <<XBEE_PACKET_STARTBYTE>>} :
          /\ out = [mem |-> Populated(XBEE_TX16, 0, data), crc |-> 0]
          /\ dlen = Len(data)
    /\ tx = <<>>
    /\ looped = 0
    /\ scn = [kind |-> "config", expect |-> <<>>]
    /\ InitAux

SpecConfig == InitConfig /\ [][NextConfig]_vars

\* the bytes the task in XBeeConfig_SetPacketApiMode has written, and the
\* times at which it wrote them
ConfigBytes == [i \in 1..Cardinality({j \in 1..Len(tx) : wlog[j].by = "config"}) |->
                  tx[CHOOSE j \in 1..Len(tx) :
                       /\ wlog[j].by = "config"
                       /\ Cardinality({k \in 1..j : wlog[k].by = "config"}) = i]]

ConfigTimes == [i \in 1..Cardinality({j \in 1..Len(tx) : wlog[j].by = "config"}) |->
                  wlog[CHOOSE j \in 1..Len(tx) :
                         /\ wlog[j].by = "config"
                         /\ Cardinality({k \in 1..j : wlog[k].by = "config"}) = i].t]

\* "+++" and "ATAP 1,CN" with its carriage return
AsciiEscape == <<43, 43, 43>>
AsciiCommand == <<65, 84, 65, 80, 32, 49, 44, 67, 78, 13>>

\* C14: XBeeConfig_SetPacketApiMode writes exactly "+++", suspends its
\* task for at least 1000 ms (1025 ms) and only then writes "ATAP 1,CN"
\* and a carriage return; between the two the task writes nothing.
C14_GuardInterval ==
    /\ Len(wlog) = Len(tx)
    /\ cfg.pc = "idle" => ConfigBytes = <<>>
    /\ cfg.pc = "sleeping"
       => ( /\ ConfigBytes = AsciiEscape
            /\ cfg.wake >= ConfigTimes[3] + 1000
            /\ cfg.wake = ConfigTimes[3] + 1025 )
    /\ cfg.pc = "done"
       => \/ ConfigBytes = <<>>
          \/ /\ ConfigBytes = AsciiEscape \o AsciiCommand
             /\ ConfigTimes[4] >= ConfigTimes[3] + 1025
             /\ \A i \in 1..3 : ConfigTimes[i] = ConfigTimes[1]

\* the command went out after the guard time, with bytes of another task
\* written in between
C14_Witness ==
    /\ cfg.pc = "done"
    /\ Len(tx) > 13
    /\ wlog[3].by = "config"
    /\ wlog[4].by = "user"
    /\ wlog[Len(tx)].by = "config"
    /\ wlog[Len(tx)].t >= wlog[3].t + 1025
    /\ tx[Len(tx)] = 13

---------------------------------------------------------------------------
(* The activation lifecycle: XBee_SetActive and the task it starts         *)

\* XBee_SetActive calls made in one run
MaxCalls == 3

\* a task calls XBee_SetActive( state ).  A task that is created starts
\* XBeeTask with a packet of its own, reset; a task that is deleted leaves
\* its packet as it is.  A call that hands a word read through a NULL
\* pointer to TaskDelete ends the run.
SetActive_Call ==
    /\ ~eng.fault
    /\ eng.calls < MaxCalls
    /\ \E state \in {0, 1}, env \in Envs :
          LET a == XBee_SetActive(XBee, state, env)
          IN  /\ XBee' = a.x
              /\ eng' = [running |-> eng.running + a.created - a.deleted,
                         calls |-> eng.calls + 1,
                         fault |-> a.fault]
              /\ acall' = [state |-> state, env |-> env, pre |-> XBee, post |-> a.x,
                           ret |-> a.ret, created |-> a.created, deleted |-> a.deleted,
                           rxState |-> pkt.rxState]
              /\ IF a.created > 0
                 THEN /\ pkt' = XBee_ResetPacket(pkt)
                      /\ pc' = "idle"
                 ELSE UNCHANGED <<pkt, pc>>
    /\ UNCHANGED <<rx, wire, ret, last, got, out, dlen, tx, looped, scn, sret, cfg, now, wlog, dec, moreVars>>

\* the XBee task is alive and can take a step of its pump loop
Task_Running == ~eng.fault /\ eng.running > 0

NextActive ==
    \/ SetActive_Call
    \/ Serial_Arrive
    \/ Task_Running /\ GetPacket_Enter
    \/ Task_Running /\ GetPacket_Loop
    \/ Task_Running /\ Caller_Reset

\* the bytes on the line: two frames, the second one with a bad checksum
ActiveStream == ValidFrame(<<1, 0>>) \o <<XBEE_PACKET_STARTBYTE, 0, 1, 1, 0>>

InitActive ==
    InitRx({[kind |-> "active", stream |-> ActiveStream, expect |-> <<>>]})

SpecActive == InitActive /\ [][NextActive]_vars

\* the engine with transport, state and task
Active == [alloc |-> TRUE, task |-> TRUE, serial |-> TRUE]

\* C15: on a board whose transport activates and whose task can be
\* created, XBee_SetActive(1) from inactive activates the transport,
\* allocates the engine state and starts exactly one task; XBee_SetActive(0)
\* on that engine deletes the task, releases the state and deactivates the
\* transport; XBee_SetActive(1) on an active engine starts no task and
\* allocates nothing.  The tasks alive are the one the engine state names.
C15_Lifecycle ==
    /\ ( acall.state = 1 /\ acall.pre = Inactive /\ acall.env.serial /\ acall.env.task )
       => ( /\ acall.post = Active
            /\ acall.created = 1
            /\ acall.ret = CONTROLLER_OK )
    /\ ( acall.state = 0 /\ acall.pre = Active )
       => ( /\ acall.post = Inactive
            /\ acall.deleted = 1
            /\ acall.created = 0
            /\ acall.ret = CONTROLLER_OK )
    /\ ( acall.state = 1 /\ acall.pre.alloc )
       => ( /\ acall.post = acall.pre
            /\ acall.created = 0
            /\ acall.deleted = 0
            /\ acall.ret = CONTROLLER_OK )
    /\ ~eng.fault => eng.running = IF XBee.task THEN 1 ELSE 0

\* activated, deactivated and activated again: one task is alive
C15_Witness ==
    /\ eng.calls = 3
    /\ acall.state = 1
    /\ acall.pre = Inactive
    /\ acall.created = 1
    /\ XBee = Active
    /\ eng.running = 1
    /\ ~eng.fault

\* C16: when XBee_SetActive(1) on an inactive engine cannot activate the
\* transport or cannot create the task, it returns a failure result and
\* the engine stays inactive: no engine state held, no task running.
C16_ActivationFailure ==
    ( acall.state = 1 /\ acall.pre = Inactive /\ ( ~acall.env.serial \/ ~acall.env.task ) )
    => ( /\ acall.ret # CONTROLLER_OK
         /\ acall.post = Inactive
         /\ acall.created = 0 )

\* C17: XBee_SetActive(0) completes without fault and leaves the engine
\* inactive in every receiver state and every activation state, the
\* inactive one included.
C17_DeactivationSafe ==
    acall.state = 0
    => ( /\ ~eng.fault
         /\ acall.post = Inactive
         /\ acall.ret = CONTROLLER_OK )

---------------------------------------------------------------------------
(* The decode functions                                                    *)

\* Offsets of the fields of each packet kind from apiId (xbee.h layout):
\* RX16 and IO16 source 1..2, rssi 3, options 4; RX64 and IO64 source 1..8,
\* rssi 9, options 10; IO samples and channelIndicators after options, then
\* data; AT response frameID 1, command 2..3, status 4, value 5; TX status
\* frameID 1, status 2.

\* a 64-bit value as 8 bytes, most significant first: value << 8*k
ShiftLeftBytes(a, k) == SubSeq(a, k + 1, Len(a)) \o Repeat(0, Min(k, Len(a)))

RECURSIVE AddCarry(_, _)
\* value + c, modulo 2^(8 * Len(a))
AddCarry(a, c) ==
    IF a = <<>> THEN <<>>
    ELSE LET v == a[Len(a)] + c
         IN  AddCarry(SubSeq(a, 1, Len(a) - 1), v \div 256) \o <<v % 256>>

RECURSIVE ReadSource64(_, _, _, _)
\* for( i = 0; i < 8; i++ ) { *srcAddress <<= i*8; *srcAddress += source[i]; }
\* with source at offset at of the packet
ReadSource64(p, at, a, i) ==
    IF i >= 8 THEN a
    ELSE ReadSource64(p, at, AddCarry(ShiftLeftBytes(a, i), p.buf[at + i]), i + 1)

\* *srcAddress = source[0]; *srcAddress <<= 8; *srcAddress += source[1];
ReadSource16(p, at) == (p.buf[at] * 256 + p.buf[at + 1]) % 65536

\* a write through an output pointer that may be NULL
Out(o, want, field, value) ==
    IF field \in want THEN [o EXCEPT ![field] = value] ELSE o

XBee_ReadRX16Packet(xbp, o, want) ==
    IF xbp.buf[0] # XBEE_RX16 THEN [ret |-> FALSE, o |-> o]
    ELSE LET o1 == Out(o, want, "src16", ReadSource16(xbp, 1))
             o2 == Out(o1, want, "sigstrength", xbp.buf[3])
             o3 == Out(o2, want, "options", xbp.buf[4])
             o4 == Out(o3, want, "data", 5)
             o5 == Out(o4, want, "datalength", (xbp.length - 5) % 256)
         IN  [ret |-> TRUE, o |-> o5]

XBee_ReadRX64Packet(xbp, o, want) ==
    IF xbp.buf[0] # XBEE_RX64 THEN [ret |-> FALSE, o |-> o]
    ELSE LET o1 == Out(o, want, "src64", ReadSource64(xbp, 1, o.src64, 0))
             o2 == Out(o1, want, "sigstrength", xbp.buf[9])
             o3 == Out(o2, want, "options", xbp.buf[10])
             o4 == Out(o3, want, "data", 11)
             o5 == Out(o4, want, "datalength", (xbp.length - 11) % 256)
         IN  [ret |-> TRUE, o |-> o5]

RECURSIVE IOValuesLoop(_, _, _, _, _, _)
\* the for loop of XBee_GetIOValues from pin i on: ci is channelIndicators,
\* dig is digitalins, at is the offset p points to
IOValuesLoop(xbp, i, ci, dig, at, inputs) ==
    IF i >= XBEE_INPUTS THEN inputs
    ELSE LET enabled == ci % 2 = 1
             rest == ci \div 2
         IN  IF i < 9
             THEN IF enabled
                  THEN LET fetch == dig = 0
                           d == IF fetch THEN xbp.buf[at] * 256 + xbp.buf[at + 1] ELSE dig
                           a == IF fetch THEN at + 2 ELSE at
                       IN  IOValuesLoop(xbp, i + 1, rest, d, a,
                                        [inputs EXCEPT ![i + 1] = ((d \div (2 ^ i)) % 2) * 1023])
                  ELSE IOValuesLoop(xbp, i + 1, rest, dig, at, [inputs EXCEPT ![i + 1] = 0])
             ELSE IF enabled
                  THEN IOValuesLoop(xbp, i + 1, rest, dig, at + 2,
                                    [inputs EXCEPT ![i - 8] = xbp.buf[at] * 256 + xbp.buf[at + 1]])
                  ELSE IOValuesLoop(xbp, i + 1, rest, dig, at, [inputs EXCEPT ![i - 8] = 0])

\* inputs is the caller's array of 9 ints, as a sequence
XBee_GetIOValues(xbp, inputs) ==
    IF xbp.buf[0] = XBEE_IO16
    THEN [ret |-> TRUE,
          inputs |-> IOValuesLoop(xbp, 0, xbp.buf[6] * 256 + xbp.buf[7], 0, 8, inputs)]
    ELSE IF xbp.buf[0] = XBEE_IO64
    THEN [ret |-> TRUE,
          inputs |-> IOValuesLoop(xbp, 0, xbp.buf[12] * 256 + xbp.buf[13], 0, 14, inputs)]
    ELSE [ret |-> FALSE, inputs |-> inputs]

XBee_ReadIO16Packet(xbp, o, want) ==
    IF xbp.buf[0] # XBEE_IO16 THEN [ret |-> FALSE, o |-> o]
    ELSE LET o1 == Out(o, want, "src16", ReadSource16(xbp, 1))
             o2 == Out(o1, want, "sigstrength", xbp.buf[3])
             o3 == Out(o2, want, "options", xbp.buf[4])
             io == XBee_GetIOValues(xbp, o.samples)
         IN  IF "samples" \in want
             THEN [ret |-> io.ret, o |-> [o3 EXCEPT !.samples = io.inputs]]
             ELSE [ret |-> TRUE, o |-> o3]

\* the kind XBee_ReadIO64Packet tests apiId against
ReadIO64Kind == XBEE_RX64

XBee_ReadIO64Packet(xbp, o, want) ==
    IF xbp.buf[0] # ReadIO64Kind THEN [ret |-> FALSE, o |-> o]
    ELSE LET o1 == Out(o, want, "src64", ReadSource64(xbp, 1, o.src64, 0))
             o2 == Out(o1, want, "sigstrength", xbp.buf[9])
             o3 == Out(o2, want, "options", xbp.buf[10])
             io == XBee_GetIOValues(xbp, o.samples)
         IN  IF "samples" \in want
             THEN [ret |-> io.ret, o |-> [o3 EXCEPT !.samples = io.inputs]]
             ELSE [ret |-> TRUE, o |-> o3]

\* command = (char*)xbp->atResponse.command assigns the parameter itself,
\* a local of the function: the characters o.command the caller's pointer
\* names are not written
XBee_ReadAtResponsePacket(xbp, o, want) ==
    IF xbp.buf[0] # XBEE_ATCOMMANDRESPONSE THEN [ret |-> FALSE, o |-> o]
    ELSE LET o1 == Out(o, want, "frameID", xbp.buf[1])
             o2 == Out(o1, want, "status", xbp.buf[4])
             o3 == Out(o2, want, "data", 5)
         IN  [ret |-> TRUE, o |-> o3]

XBee_ReadTXStatusPacket(xbp, o, want) ==
    IF xbp.buf[0] # XBEE_TXSTATUS THEN [ret |-> FALSE, o |-> o]
    ELSE LET o1 == Out(o, want, "frameID", xbp.buf[1])
             o2 == Out(o1, want, "status", xbp.buf[2])
         IN  [ret |-> TRUE, o |-> o2]

\* a packet whose bytes from apiId on are mem, with the given length
PacketWith(mem, length) ==
    [EmptyPacket EXCEPT !.buf = [i \in 0..(XBEE_MAX_PACKET_SIZE - 1) |->
                                   IF i < Len(mem) THEN mem[i + 1] ELSE 0],
                        !.length = length]

\* the highest of the pins 0.. that the sampled packets enable, besides pin 8
MaxPin == 2

\* channel masks that enable digital pins only, and digital sample words
DigitalMasks == {m + 256 * h : m \in 0..(2 ^ (MaxPin + 1) - 1), h \in {0, 1}}
SampleWords == {w + 256 * h : w \in 0..(2 ^ (MaxPin + 1) - 1), h \in {0, 1}}

\* the two bytes that follow the sample word in the buffer
NextWords == {<<0, 0>>, <<255, 255>>}

\* I/O-sample packets with one sample
IOPackets ==
    { PacketWith(<<k>> \o Repeat(h, FixedBytes(k) - 4)
                   \o <<1, m \div 256, m % 256, w \div 256, w % 256>> \o nx,
                 FixedBytes(k) + 2) :
        k \in {XBEE_IO16, XBEE_IO64}, h \in {255}, m \in DigitalMasks,
        w \in SampleWords, nx \in NextWords }

\* packets of the other kinds and of no kind
PlainPackets ==
    { PacketWith(Populated(k, h, data), FixedBytes(k) + Len(data)) :
        k \in SupportedKinds \ {XBEE_TXSTATUS}, h \in HeaderVals, data \in {<<>>, <<1>>} }
    \cup { PacketWith(Populated(XBEE_TXSTATUS, h, <<>>), 3) : h \in HeaderVals }
    \cup { PacketWith(<<k, 1>>, 2) : k \in UnknownKinds }

\* the output pointers a caller passes: all, all but samples, none
Wants ==
    { {"src16", "src64", "sigstrength", "options", "data", "datalength", "samples",
       "frameID", "status", "command"},
      {"src16", "src64", "sigstrength", "options", "data", "datalength",
       "frameID", "status", "command"},
      {} }

\* a decode function is called on the packet
Decode(name, r) ==
    /\ dec.fn = "none"
    /\ dec' = [dec EXCEPT !.fn = name, !.ret = r.ret, !.after = r.o]
    /\ UNCHANGED <<coreVars, sret, cfg, now, wlog, lifeVars, moreVars>>

Call_ReadRX16Packet == Decode("RX16", XBee_ReadRX16Packet(dec.xbp, dec.before, dec.want))
Call_ReadRX64Packet == Decode("RX64", XBee_ReadRX64Packet(dec.xbp, dec.before, dec.want))
Call_ReadIO16Packet == Decode("IO16", XBee_ReadIO16Packet(dec.xbp, dec.before, dec.want))
Call_ReadIO64Packet == Decode("IO64", XBee_ReadIO64Packet(dec.xbp, dec.before, dec.want))
Call_ReadAtResponsePacket ==
    Decode("ATRESPONSE", XBee_ReadAtResponsePacket(dec.xbp, dec.before, dec.want))
Call_ReadTXStatusPacket ==
    Decode("TXSTATUS", XBee_ReadTXStatusPacket(dec.xbp, dec.before, dec.want))

NextDecode ==
    \/ Call_ReadRX16Packet
    \/ Call_ReadRX64Packet
    \/ Call_ReadIO16Packet
    \/ Call_ReadIO64Packet
    \/ Call_ReadAtResponsePacket
    \/ Call_ReadTXStatusPacket

InitDecode ==
    /\ pkt = XBee_ResetPacket(EmptyPacket)
    /\ rx = <<>>
    /\ wire = <<>>
    /\ pc = "idle"
    /\ ret = 0
    /\ last = [n |-> 0, c |-> 0, pre |-> XBee_ResetPacket(EmptyPacket),
               declared |-> 0, w |-> 0]
    /\ got = <<>>
    /\ XBee = Inactive
    /\ out = NoPacket
    /\ dlen = 0
    /\ tx = <<>>
    /\ looped = 0
    /\ scn = [kind |-> "decode", expect |-> <<>>]
    /\ InitOthers
    /\ \E p \in IOPackets \cup PlainPackets, w \in Wants :
          dec = [NoDecode EXCEPT !.xbp = p, !.want = w]

SpecDecode == InitDecode /\ [][NextDecode]_vars

\* the kind each decode function decodes
KindOf(name) ==
    CASE name = "RX16" -> XBEE_RX16
      [] name = "RX64" -> XBEE_RX64
      [] name = "IO16" -> XBEE_IO16
      [] name = "IO64" -> XBEE_IO64
      [] name = "ATRESPONSE" -> XBEE_ATCOMMANDRESPONSE
      [] name = "TXSTATUS" -> XBEE_TXSTATUS

\* C18: whenever a decode function returns false every output parameter
\* holds the value it had before the call, and each function returns false
\* whenever the packet's kind is not the kind it decodes.
C18_FailureLeavesOutputs ==
    dec.fn # "none"
    => ( /\ ~dec.ret => dec.after = dec.before
         /\ dec.xbp.buf[0] # KindOf(dec.fn) => ~dec.ret )

\* bit i of a word
Bit(word, i) == (word \div (2 ^ i)) % 2

\* C19: for an IO16 packet whose channel mask enables digital pins only and
\* for every digital sample word, XBee_ReadIO16Packet returns true and
\* value i of the 9 is 1023 when pin i is enabled and bit i of the word in
\* the first two data bytes is 1, and 0 otherwise.
C19_DigitalSamples ==
    ( /\ dec.fn = "IO16" /\ dec.xbp.buf[0] = XBEE_IO16 /\ "samples" \in dec.want
      /\ dec.xbp.buf[6] * 256 + dec.xbp.buf[7] < 2 ^ XBEE_INPUTS )
    => LET mask == dec.xbp.buf[6] * 256 + dec.xbp.buf[7]
           word == dec.xbp.buf[8] * 256 + dec.xbp.buf[9]
       IN  /\ dec.ret
           /\ \A i \in 0..(XBEE_INPUTS - 1) :
                 dec.after.samples[i + 1] =
                    IF Bit(mask, i) = 1 /\ Bit(word, i) = 1 THEN 1023 ELSE 0

\* C20: on a packet of kind IO64 XBee_ReadIO64Packet returns true and fills
\* the outputs asked for; on a packet of any other kind it returns false.
C20_ReadIO64 ==
    dec.fn = "IO64"
    => IF dec.xbp.buf[0] = XBEE_IO64
       THEN /\ dec.ret
            /\ "samples" \in dec.want
               => dec.after.samples = XBee_GetIOValues(dec.xbp, dec.before.samples).inputs
            /\ "sigstrength" \in dec.want => dec.after.sigstrength = dec.xbp.buf[9]
            /\ "options" \in dec.want => dec.after.options = dec.xbp.buf[10]
       ELSE ~dec.ret

---------------------------------------------------------------------------
(* XBee_GetActive, on a serial transport that has other users              *)

\* return Serial_GetActive( )
XBee_GetActive(x) == IF x.serial THEN 1 ELSE 0

\* a task calls XBee_GetActive; the engine it found is kept with the result
GetActive_Call ==
    /\ ~eng.fault
    /\ gact' = << [ret |-> XBee_GetActive(XBee), x |-> XBee] >>
    /\ UNCHANGED <<coreVars, sret, cfg, now, wlog, lifeVars, dec, tsk, mk, sa, coVars>>

\* another user of the serial port activates or deactivates it
Serial_SetActive_Other ==
    /\ ~eng.fault
    /\ XBee' = [XBee EXCEPT !.serial = ~XBee.serial]
    /\ UNCHANGED <<pkt, rx, wire, pc, ret, last, got, out, dlen, tx, looped, scn, auxVars>>

NextShared ==
    \/ NextActive
    \/ GetActive_Call
    \/ Serial_SetActive_Other

SpecShared == InitActive /\ [][NextShared]_vars

\* C21: after any sequence of XBee_SetActive calls and of activations and
\* deactivations of the serial transport by other users, XBee_GetActive
\* returns 1 exactly when the engine state is allocated and its task
\* started, and 0 exactly when the engine is inactive.
C21_GetActive ==
    gact # <<>>
    => ( /\ gact[1].ret \in {0, 1}
         /\ gact[1].ret = 1 <=> ( gact[1].x.alloc /\ gact[1].x.task ) )

---------------------------------------------------------------------------
(* XBeeTask, the driver loop                                               *)

\* the argument of the Sleep at the end of each loop iteration
PumpSleepMs == 5

\* XBeeTask is entered: its packet is reset and XBeeConfig_SetPacketApiMode
\* is called
Task_Start ==
    /\ tsk.pc = "start"
    /\ pkt' = XBee_ResetPacket(pkt)
    /\ tsk' = [tsk EXCEPT !.pc = "config", !.resets = tsk.resets + 1,
                          !.configs = tsk.configs + 1]
    /\ UNCHANGED <<rx, wire, pc, ret, last, got, XBee, out, dlen, tx, looped, scn,
                   sret, cfg, now, wlog, lifeVars, dec, gact, mk, sa, coVars>>

\* XBeeConfig_SetPacketApiMode has returned: the while loop is entered
Task_ConfigDone ==
    /\ tsk.pc = "config"
    /\ cfg.pc = "done"
    /\ tsk' = [tsk EXCEPT !.pc = "ready"]
    /\ UNCHANGED <<coreVars, sret, cfg, now, wlog, lifeVars, dec, gact, mk, sa, coVars>>

\* the loop body calls XBee_GetPacket, which activates the engine
Task_CallPump ==
    /\ tsk.pc = "ready"
    /\ pc \in {"idle", "returned"}
    /\ pc' = "loop"
    /\ XBee' = XBee_SetActive1(XBee)
    /\ tsk' = [tsk EXCEPT !.pc = "pumping", !.pumps = tsk.pumps + 1]
    /\ UNCHANGED <<pkt, rx, wire, ret, last, got, out, dlen, tx, looped, scn,
                   sret, cfg, now, wlog, lifeVars, dec, gact, mk, sa, coVars>>

\* variant: the packet is reset at the end of every iteration
TaskResets_Always(r) == TRUE

\* if( XBee_GetPacket( &myPacket ) ): the branch that decodes and resets
TaskResets(r) == r # 0

\* variant: an iteration that got a packet goes on without sleeping
TaskAfterPump_SkipsSleep(r) == IF r # 0 THEN "ready" ELSE "sleeping"

\* Sleep( 5 ) closes the loop body on both branches of the if
TaskAfterPump(r) == "sleeping"

\* XBee_GetPacket has returned: a packet is decoded into in and the packet
\* reset, then the task sleeps
Task_AfterPump ==
    /\ tsk.pc = "pumping"
    /\ pc = "returned"
    /\ pkt' = IF TaskResets(ret) THEN XBee_ResetPacket(pkt) ELSE pkt
    /\ tsk' = [tsk EXCEPT
                 !.pc = TaskAfterPump(ret),
                 !.wake = Sleep(PumpSleepMs),
                 !.atReturn = pkt,
                 !.resets = IF TaskResets(ret) THEN tsk.resets + 1 ELSE tsk.resets,
                 !.in = IF ret # 0
                        THEN XBee_ReadIO16Packet(pkt, [samples |-> tsk.in],
                                                 {"samples"}).o.samples
                        ELSE tsk.in]
    /\ pc' = "idle"
    /\ UNCHANGED <<rx, wire, ret, last, got, XBee, out, dlen, tx, looped, scn,
                   sret, cfg, now, wlog, lifeVars, dec, gact, mk, sa, coVars>>

\* the Sleep is over: next iteration
Task_Wake ==
    /\ tsk.pc = "sleeping"
    /\ now >= tsk.wake
    /\ tsk' = [tsk EXCEPT !.pc = "ready", !.yields = tsk.yields + 1]
    /\ UNCHANGED <<coreVars, sret, cfg, now, wlog, lifeVars, dec, gact, mk, sa, coVars>>

NextTask ==
    \/ Task_Start
    \/ tsk.pc = "config" /\ Config_Begin
    \/ tsk.pc = "config" /\ Config_Resume
    \/ Task_ConfigDone
    \/ Task_CallPump
    \/ tsk.pc = "pumping" /\ GetPacket_Loop
    \/ Task_AfterPump
    \/ Task_Wake
    \/ Tick
    \/ Serial_Arrive

\* an I/O sample frame: pin 0 enabled and high
SampleFrame == ValidFrame(<<XBEE_IO16, 0, 1, 40, 0, 1, 0, 1, 0, 1>>)

\* the frames the radio sends while the task runs
TaskScenarios ==
    { [kind |-> "task", stream |-> ValidFrame(p), expect |-> <<PacketOf(p)>>] :
        p \in {<<1, 0>>, <<8>>} }
    \cup
    { [kind |-> "task", stream |-> SampleFrame,
       expect |-> <<PacketOf(<<XBEE_IO16, 0, 1, 40, 0, 1, 0, 1, 0, 1>>)>>],
      [kind |-> "task", stream |-> <<XBEE_PACKET_STARTBYTE, 0, 1, 1, 0>> \o ValidFrame(<<8>>),
       expect |-> <<PacketOf(<<8>>)>>] }

\* the task has just been created by XBee_SetActive( 1 ); its packet and
\* its array in are not initialised
InitTaskWith(u, scenarios) ==
    /\ \E b \in {0, 255} :
          pkt = [EmptyPacket EXCEPT !.buf = [i \in 0..(XBEE_MAX_PACKET_SIZE - 1) |-> b],
                                    !.rxState = XBEE_PACKET_RX_PAYLOAD,
                                    !.index = b, !.length = b, !.crc = b, !.dataPtr = b]
    /\ rx = <<>>
    /\ \E s \in scenarios :
          /\ wire = s.stream
          /\ scn = [kind |-> s.kind, expect |-> s.expect]
    /\ pc = "idle"
    /\ ret = 0
    /\ last = [n |-> 0, c |-> 0, pre |-> XBee_ResetPacket(EmptyPacket),
               declared |-> 0, w |-> 0]
    /\ got = <<>>
    /\ XBee = XBee_SetActive1(Inactive)
    /\ out = NoPacket
    /\ dlen = 0
    /\ tx = <<>>
    /\ looped = 0
    /\ sret = <<>>
    /\ cfg = [pc |-> "idle", wake |-> 0]
    /\ now = 0
    /\ wlog = <<>>
    /\ eng = [running |-> 1, calls |-> 1, fault |-> FALSE]
    /\ acall = NoCall
    /\ dec = NoDecode
    /\ gact = <<>>
    /\ sa = NoCallers
    /\ usr = u
    /\ snd = NoSenders
    /\ mk = NoBuild
    /\ tsk = [NoTask EXCEPT !.pc = "start", !.in = Repeat(7, XBEE_INPUTS)]

InitTask == InitTaskWith(NoUser, TaskScenarios)

SpecTask == InitTask /\ [][NextTask]_vars

\* C22: XBeeTask resets its packet and calls XBeeConfig_SetPacketApiMode
\* exactly once, before the first pump; afterwards every XBee_GetPacket call
\* is followed by a Sleep( 5 ) before the next one, whatever it returned.
C22_TaskLoopOrder ==
    /\ tsk.configs <= 1
    /\ tsk.pumps > 0 => ( tsk.configs = 1 /\ tsk.resets >= 1 /\ cfg.pc = "done" )
    /\ tsk.pc \in {"start", "config"} => tsk.pumps = 0
    /\ tsk.pc = "ready" => tsk.pumps = tsk.yields
    /\ tsk.pc \in {"pumping", "sleeping"} => tsk.pumps = tsk.yields + 1
    /\ tsk.pc = "sleeping" => ( tsk.wake - PumpSleepMs <= now /\ tsk.wake > tsk.wake - PumpSleepMs )

\* three pumps have been made, one of which returned a packet
C22_Witness ==
    /\ tsk.pc = "sleeping"
    /\ tsk.pumps >= 3
    /\ got # <<>>
    /\ tsk.pumps > Len(got)

\* C23: the task resets its packet only before the first pump and right
\* after a pump that returned 1; after a pump that returned 0 the next pump
\* starts from the state the last one left, and a frame whose bytes arrive
\* over several iterations is received.
C23_NoResetMidFrame ==
    /\ tsk.pc \in {"ready", "sleeping"} => tsk.resets = 1 + Len(got)
    /\ ( tsk.pc \in {"ready", "sleeping"} /\ tsk.pumps > 0 /\ ret = 0 )
       => pkt = tsk.atReturn
    /\ ( tsk.pc \in {"ready", "sleeping"} /\ RxDrained ) => got = scn.expect

\* a frame has been returned by a pump later than the first one, the pump
\* before it having stopped in the middle of the frame
C23_Witness ==
    /\ tsk.pc = "sleeping"
    /\ ret = 1
    /\ tsk.pumps >= 2
    /\ got = scn.expect
    /\ last.pre.rxState # XBEE_PACKET_RX_START

---------------------------------------------------------------------------
(* The configuration helpers                                               *)

\* the body shared by the helpers: an AT command packet is built in a local
\* packet and handed to XBee_SendPacket, which activates the engine first
\* and sends nothing when that fails
ConfigSend(fn, arg, cmd, params, n) ==
    /\ ~eng.fault
    /\ eng.calls < MaxCalls
    /\ \E env \in {e \in Envs : e.zero} :
          LET a   == XBee_SetActive(XBee, 1, env)
              xbp == [mem |-> XBee_CreateATCommandPacket(0, cmd, params, n), crc |-> 0]
              ok  == a.ret = CONTROLLER_OK
              bytes == IF ok THEN SendBytes(xbp, n) ELSE <<>>
          IN  /\ XBee' = a.x
              /\ eng' = [running |-> eng.running + a.created - a.deleted,
                         calls |-> eng.calls + 1,
                         fault |-> a.fault]
              /\ tx' = tx \o bytes
              /\ mk' = [NoBuild EXCEPT !.fn = fn, !.arg = arg, !.mem = xbp.mem,
                                       !.ok = ok, !.sent = bytes, !.pre = XBee,
                                       !.codes = IF ok
                                                 THEN mk.codes \cup {<<fn, <<bytes[6], bytes[7]>>>>}
                                                 ELSE mk.codes]
    /\ UNCHANGED <<pkt, rx, wire, pc, ret, last, got, out, dlen, looped, scn,
                   sret, cfg, now, wlog, acall, dec, gact, tsk, sa, coVars>>

\* the arguments the helpers are called with
Words16 == {0, 1, 255, 256, 4660, 65280, 65535}
Bytes8 == {0, 12, 126, 255}

XBeeConfig_WriteStateToMemory ==
    ConfigSend("WR", 0, <<87, 82>>, <<>>, 0)

\* variant: the low byte of the id goes first
XBeeConfig_SetPanID_LowFirst ==
    \E id \in Words16 :
        ConfigSend("ID", id, <<73, 68>>, <<id % 256, (id \div 256) % 256>>, 2)

XBeeConfig_SetPanID ==
    \E id \in Words16 :
        ConfigSend("ID", id, <<73, 68>>, <<(id \div 256) % 256, id % 256>>, 2)

XBeeConfig_SetChannel ==
    \E channel \in Bytes8 :
        ConfigSend("CH", channel, <<67, 72>>, <<channel>>, 1)

XBeeConfig_SetSampleRate ==
    \E rate \in Words16 :
        ConfigSend("IR", rate, <<73, 82>>, <<(rate \div 256) % 256, rate % 256>>, 2)

NextHelpers ==
    \/ XBeeConfig_WriteStateToMemory
    \/ XBeeConfig_SetPanID
    \/ XBeeConfig_SetChannel
    \/ XBeeConfig_SetSampleRate

\* the engine is down or up and the receiver is in the middle of a frame
InitHelpers ==
    /\ pkt \in { XBee_ResetPacket(EmptyPacket),
                  RxByte(RxByte(XBee_ResetPacket(EmptyPacket), XBEE_PACKET_STARTBYTE), 0) }
    /\ rx = <<>>
    /\ wire = <<>>
    /\ scn = [kind |-> "helpers", expect |-> <<>>]
    /\ pc = "idle"
    /\ ret = 0
    /\ last = [n |-> 0, c |-> 0, pre |-> XBee_ResetPacket(EmptyPacket),
               declared |-> 0, w |-> 0]
    /\ got = <<>>
    /\ \E up \in BOOLEAN :
          /\ XBee = IF up THEN Active ELSE Inactive
          /\ eng = [running |-> IF up THEN 1 ELSE 0, calls |-> 0, fault |-> FALSE]
    /\ out = NoPacket
    /\ dlen = 0
    /\ tx = <<>>
    /\ looped = 0
    /\ sret = <<>>
    /\ cfg = [pc |-> "idle", wake |-> 0]
    /\ now = 0
    /\ wlog = <<>>
    /\ acall = NoCall
    /\ dec = NoDecode
    /\ gact = <<>>
    /\ sa = NoCallers
    /\ usr = NoUser
    /\ snd = NoSenders
    /\ tsk = NoTask
    /\ mk = NoBuild

SpecHelpers == InitHelpers /\ [][NextHelpers]_vars

\* the command code and the parameter bytes a helper is to send
HelperCommand(fn) ==
    CASE fn = "WR" -> <<87, 82>>
      [] fn = "ID" -> <<73, 68>>
      [] fn = "CH" -> <<67, 72>>
      [] fn = "IR" -> <<73, 82>>

HelperParams(fn, arg) ==
    CASE fn = "WR" -> <<>>
      [] fn = "CH" -> <<arg>>
      [] fn \in {"ID", "IR"} -> <<arg \div 256, arg % 256>>

\* C24: on an engine that activates, a configuration helper writes one
\* frame: start byte, length 4 + number of parameter bytes, the AT-command
\* kind, frameID 0, the command code ("ID", "CH", "IR", "WR"), the parameter
\* bytes (high byte first for the 16-bit ones) and the checksum; the
\* receiver's packet is untouched and the engine is as XBee_SendPacket's
\* activation leaves it.
C24_ConfigHelpers ==
    mk.fn \in {"WR", "ID", "CH", "IR"}
    => /\ mk.ok => ( /\ mk.sent = Frame(4 + Len(HelperParams(mk.fn, mk.arg)),
                                         <<XBEE_ATCOMMAND, 0>> \o HelperCommand(mk.fn)
                                            \o HelperParams(mk.fn, mk.arg))
                     /\ Len(tx) >= Len(mk.sent)
                     /\ SubSeq(tx, Len(tx) - Len(mk.sent) + 1, Len(tx)) = mk.sent
                     /\ XBee.alloc /\ XBee.serial )
       /\ ~mk.ok => ( mk.sent = <<>> /\ XBee = mk.pre )
       /\ mk.pre.alloc => ( mk.ok /\ XBee = mk.pre )
       /\ pkt.rxState \in {XBEE_PACKET_RX_START, XBEE_PACKET_RX_LENGTH_2}
       /\ got = <<>>

\* a pan id whose two bytes differ has been sent after another frame
C24_Witness ==
    /\ mk.fn = "ID"
    /\ mk.arg = 4660
    /\ mk.ok
    /\ Len(tx) > Len(mk.sent)

---------------------------------------------------------------------------
(* The transmit packet constructors                                        *)

RECURSIVE AndBits(_, _, _)
\* a & m on the n low bits
AndBits(a, m, n) ==
    IF n = 0 THEN 0
    ELSE (a % 2) * (m % 2) + 2 * AndBits(a \div 2, m \div 2, n - 1)

\* (destination >> 8*i) & 0xFF for a destination held as 8 bytes, most
\* significant first
Slice(destination, i) == destination[8 - i]

\* xbp->tx64.destination[i] = (destination >> 8*i) & (0xFF * i), narrowed to
\* the uint8 it is stored in
Tx64DestinationByte(destination, i) ==
    AndBits(Slice(destination, i), (255 * i) % 256, 8)

\* the packet from apiId on and its length field
XBee_CreateTX64Packet(frameID, destination, options, data, datalength) ==
    [ mem    |-> <<XBEE_TX64, frameID>>
                   \o [i \in 1..8 |-> Tx64DestinationByte(destination, i - 1)]
                   \o <<options>> \o SubSeq(data, 1, datalength),
      length |-> datalength + 5 ]

\* destination >> 8 is narrowed to the uint8 it is stored in
XBee_CreateTX16Packet(frameID, destination, options, data, datalength) ==
    [ mem    |-> <<XBEE_TX16, frameID, (destination \div 256) % 256, destination % 256,
                   options>> \o SubSeq(data, 1, datalength),
      length |-> datalength + 5 ]

\* values of the bytes of a 64-bit destination
AddressBytes == {0, 1, 255}

\* the caller holds a destination (mk.dest, and mk.arg for the 16-bit
\* form) and the data to send (mk.data)
Call_CreateTX64Packet ==
    /\ mk.fn = "none"
    /\ \E frameID \in {0, 1} :
          LET r == XBee_CreateTX64Packet(frameID, mk.dest, 0, mk.data, Len(mk.data))
          IN  mk' = [mk EXCEPT !.fn = "TX64", !.mem = r.mem, !.length = r.length,
                               !.ok = TRUE]
    /\ UNCHANGED <<coreVars, sret, cfg, now, wlog, lifeVars, dec, gact, tsk, sa, coVars>>

Call_CreateTX16Packet ==
    /\ mk.fn = "none"
    /\ \E frameID \in {0, 1} :
          LET r == XBee_CreateTX16Packet(frameID, mk.arg, 0, mk.data, Len(mk.data))
          IN  mk' = [mk EXCEPT !.fn = "TX16", !.mem = r.mem, !.length = r.length,
                               !.ok = TRUE]
    /\ UNCHANGED <<coreVars, sret, cfg, now, wlog, lifeVars, dec, gact, tsk, sa, coVars>>

NextBuild ==
    \/ Call_CreateTX64Packet
    \/ Call_CreateTX16Packet

InitBuild ==
    /\ pkt = XBee_ResetPacket(EmptyPacket)
    /\ rx = <<>>
    /\ wire = <<>>
    /\ scn = [kind |-> "build", expect |-> <<>>]
    /\ pc = "idle"
    /\ ret = 0
    /\ last = [n |-> 0, c |-> 0, pre |-> XBee_ResetPacket(EmptyPacket),
               declared |-> 0, w |-> 0]
    /\ got = <<>>
    /\ XBee = Inactive
    /\ out = NoPacket
    /\ dlen = 0
    /\ tx = <<>>
    /\ looped = 0
    /\ sret = <<>>
    /\ cfg = [pc |-> "idle", wake |-> 0]
    /\ now = 0
    /\ wlog = <<>>
    /\ eng = [running |-> 0, calls |-> 0, fault |-> FALSE]
    /\ acall = NoCall
    /\ dec = NoDecode
    /\ gact = <<>>
    /\ sa = NoCallers
    /\ usr = NoUser
    /\ snd = NoSenders
    /\ tsk = NoTask
    /\ \E destination \in SeqsOfLen(AddressBytes, 8), data \in SeqsUpTo({65}, MaxData) :
          mk = [NoBuild EXCEPT !.dest = destination, !.data = data,
                               !.arg = destination[7] * 256 + destination[8]]

SpecBuild == InitBuild /\ [][NextBuild]_vars

\* C25: after XBee_CreateTX64Packet, destination byte i of the packet is
\* (destination >> 8*i) & 0xFF for every i in 0..7.
C25_TX64Destination ==
    mk.fn = "TX64"
    => \A i \in 0..7 : mk.mem[3 + i] = Slice(mk.dest, i)

---------------------------------------------------------------------------
(* The 64-bit source address, checked under SpecDecode                     *)

\* C26: XBee_ReadRX64Packet returns as source address the 8 source bytes of
\* the packet, first byte most significant.
C26_RX64Source ==
    ( dec.fn = "RX64" /\ dec.ret /\ "src64" \in dec.want )
    => dec.after.src64 = [i \in 1..8 |-> dec.xbp.buf[i]]

\* C27: after XBee_ReadAtResponsePacket on an AT response packet with a
\* non-null command argument, the characters that argument names are the
\* two command bytes of the packet.
C27_AtResponseCommand ==
    ( dec.fn = "ATRESPONSE" /\ dec.ret /\ "command" \in dec.want )
    => dec.after.command = <<dec.xbp.buf[2], dec.xbp.buf[3]>>

---------------------------------------------------------------------------
(* The receiver under a caller that keeps pumping and resets               *)

\* the longest prefix made of arbitrary bytes
MaxPrefix == 4

\* bytes of the prefixes: the start byte and bytes of frames
PrefixBytes == {XBEE_PACKET_STARTBYTE, 0, 1, 254}

\* what precedes the frame: arbitrary bytes, a frame with a bad checksum, a
\* frame cut short, a frame that declares more than the capacity
Prefixes ==
    SeqsUpTo(PrefixBytes, MaxPrefix)
    \cup { <<XBEE_PACKET_STARTBYTE, 0, 1, 1, 0>>,
           <<XBEE_PACKET_STARTBYTE, 0, 2, 1>>,
           <<XBEE_PACKET_STARTBYTE, 0, XBEE_MAX_PACKET_SIZE + 1, 1>>,
           <<XBEE_PACKET_STARTBYTE, 255, 255, 1, 254>> }

\* payloads without the start byte whose length bytes and checksum are not
\* the start byte either
LivePayloads == {<<1>>, <<8, 0>>, Repeat(1, XBEE_MAX_PACKET_SIZE)}

LiveScenarios ==
    { [kind |-> "live", stream |-> pre \o ValidFrame(p), expect |-> <<PacketOf(p)>>] :
        pre \in Prefixes, p \in LivePayloads }

InitLive == InitRx(LiveScenarios)

\* the caller calls XBee_GetPacket again, after the reset if the last call
\* returned 1
Pump_Again ==
    /\ ~( pc = "returned" /\ ret = 1 )
    /\ GetPacket_Enter

NextLive ==
    \/ Serial_Arrive
    \/ Pump_Again
    \/ GetPacket_Loop
    \/ Caller_Reset

\* the line delivers its bytes and the caller keeps pumping
SpecLive ==
    /\ InitLive
    /\ [][NextLive]_vars
    /\ WF_vars(Serial_Arrive)
    /\ WF_vars(Pump_Again)
    /\ WF_vars(GetPacket_Loop)
    /\ WF_vars(Caller_Reset)

\* the call that took the last byte of the stream returned 1 with the frame
FrameReturned ==
    /\ RxDrained
    /\ pc = "returned"
    /\ ret = 1
    /\ got # <<>>
    /\ got[Len(got)] = scn.expect[1]

\* C28: when the caller keeps pumping and resets the packet after each call
\* that returned 1, a well-formed frame of 1..XBEE_MAX_PACKET_SIZE payload
\* bytes with no start byte after its first byte is eventually returned,
\* whatever bytes preceded it.
C28_EventuallyReceived == <>FrameReturned

\* the frame was returned after a prefix that left the receiver inside a
\* frame
C28_Witness ==
    /\ FrameReturned
    /\ last.n > Len(got[Len(got)].bytes) + 6
    /\ Len(got) = 1

---------------------------------------------------------------------------
(* The receiver under callers that reset after a packet or do not          *)

\* the longest tail of arbitrary bytes after the first frame
MaxTail == 4

\* a frame that is returned, then arbitrary bytes or another frame
KeepScenarios ==
    { [kind |-> "keep", stream |-> ValidFrame(p) \o t, expect |-> <<PacketOf(p)>>] :
        p \in {<<1>>, <<8, 0>>}, t \in SeqsUpTo(StallBytes, MaxTail) }
    \cup
    { [kind |-> "keep",
       stream |-> ValidFrame(Repeat(1, XBEE_MAX_PACKET_SIZE)) \o ValidFrame(<<1>>),
       expect |-> <<PacketOf(Repeat(1, XBEE_MAX_PACKET_SIZE))>>] }

InitKeep == InitRx(KeepScenarios)

SpecKeep == InitKeep /\ [][NextRx]_vars

\* C29: on a packet reset once at the start, with or without a reset by the
\* caller after a call that returned 1, every step into RX_PAYLOAD finds
\* index = 0, crc = 0 and the write cursor at the start of the buffer, and
\* the write cursor is never more than XBEE_MAX_PACKET_SIZE bytes past the
\* start of the buffer.
C29_Bookkeeping ==
    [][ /\ ( Consumed /\ pkt.rxState = XBEE_PACKET_RX_LENGTH_2
                      /\ pkt'.rxState = XBEE_PACKET_RX_PAYLOAD )
           => ( pkt'.index = 0 /\ pkt'.crc = 0 /\ pkt'.dataPtr = 0 )
        /\ pkt'.dataPtr <= XBEE_MAX_PACKET_SIZE ]_vars

---------------------------------------------------------------------------
(* XBee_SetActive( 1 ) statement by statement, called by several tasks     *)

\* if( state ) if( XBee == NULL ): a call on an engine that is there returns
Activate_Test(c) ==
    /\ sa.pc[c] = "out"
    /\ eng.calls < MaxCalls
    /\ eng' = [eng EXCEPT !.calls = eng.calls + 1]
    /\ sa' = [sa EXCEPT !.pc[c] = IF XBee.alloc THEN "out" ELSE "serial"]
    /\ UNCHANGED <<coreVars, sret, cfg, now, wlog, acall, dec, gact, tsk, mk, coVars>>

\* Serial_SetActive( 1 ), which fails or succeeds
Activate_Serial(c) ==
    /\ sa.pc[c] = "serial"
    /\ \E ok \in BOOLEAN :
          IF ok
          THEN /\ XBee' = [XBee EXCEPT !.serial = TRUE]
               /\ sa' = [sa EXCEPT !.pc[c] = "malloc"]
          ELSE /\ sa' = [sa EXCEPT !.pc[c] = "out"]
               /\ UNCHANGED XBee
    /\ UNCHANGED <<pkt, rx, wire, pc, ret, last, got, out, dlen, tx, looped, scn,
                   sret, cfg, now, wlog, lifeVars, dec, gact, tsk, mk, coVars>>

\* XBee = MallocWait( ... ): a new block, whose task pointer holds whatever
\* the memory held
Activate_Malloc(c) ==
    /\ sa.pc[c] = "malloc"
    /\ \E garbage \in BOOLEAN :
          XBee' = [XBee EXCEPT !.alloc = TRUE, !.task = garbage]
    /\ sa' = [sa EXCEPT !.pc[c] = "create", !.blocks = sa.blocks + 1]
    /\ UNCHANGED <<pkt, rx, wire, pc, ret, last, got, out, dlen, tx, looped, scn,
                   sret, cfg, now, wlog, lifeVars, dec, gact, tsk, mk, coVars>>

\* XBee->XBeeTaskPtr = TaskCreate( XBeeTask, ... ), which returns a task or
\* NULL
Activate_TaskCreate(c) ==
    /\ sa.pc[c] = "create"
    /\ \E made \in BOOLEAN :
          /\ XBee' = [XBee EXCEPT !.task = made]
          /\ eng' = [eng EXCEPT !.running = eng.running + (IF made THEN 1 ELSE 0)]
    /\ sa' = [sa EXCEPT !.pc[c] = "out"]
    /\ UNCHANGED <<pkt, rx, wire, pc, ret, last, got, out, dlen, tx, looped, scn,
                   sret, cfg, now, wlog, acall, dec, gact, tsk, mk, coVars>>

NextRace ==
    \E c \in 1..NumCallers :
        \/ Activate_Test(c)
        \/ Activate_Serial(c)
        \/ Activate_Malloc(c)
        \/ Activate_TaskCreate(c)

SpecRace == InitActive /\ [][NextRace]_vars

\* C30: whatever the interleaving of concurrent XBee_SetActive( 1 ) calls, at
\* most one engine state block is allocated and at most one XBeeTask exists.
C30_OneTask ==
    /\ sa.blocks <= 1
    /\ eng.running <= 1

---------------------------------------------------------------------------
(* All the setting helpers, XBeeConfig_SetAddress included                 *)

\* the addresses the helper is called with
Addresses == {0, 1, 4660, 305419896}

\* the four parameter bytes, low byte first, each narrowed to the uint8 it
\* is stored in
AddressParams(address) ==
    << address % 256,
       ((address \div 256) % 16777216) % 256,
       ((address \div 65536) % 65536) % 256,
       (address \div 16777216) % 256 >>

XBeeConfig_SetAddress ==
    \E address \in Addresses :
        ConfigSend("Address", address, <<73, 82>>, AddressParams(address), 4)

NextSettings ==
    \/ NextHelpers
    \/ XBeeConfig_SetAddress

SpecSettings == InitHelpers /\ [][NextSettings]_vars

\* C34: the command codes of the frames that different helpers have sent
\* differ.
C34_DistinctCommands ==
    \A a, b \in mk.codes : a[1] # b[1] => a[2] # b[2]

---------------------------------------------------------------------------
(* Received packets handed to the RX decoders                              *)

\* the longest payload of the short frames
MaxShort == 12

\* payloads that start with the RX16 or RX64 kind, of every length from the
\* kind byte alone up to MaxShort, and of the capacity
ReceivedPayloads ==
    { <<k>> \o Repeat(f, n) : k \in {XBEE_RX16, XBEE_RX64}, f \in {1, 2},
                               n \in (0..(MaxShort - 1)) \cup {XBEE_MAX_PACKET_SIZE - 1} }

\* their frames, those with the start byte as checksum left out
ReceivedScenarios ==
    { [kind |-> "received", stream |-> ValidFrame(p), expect |-> <<PacketOf(p)>>] :
        p \in {q \in ReceivedPayloads : FrameCk(q) # XBEE_PACKET_STARTBYTE} }

\* the caller decodes the packet XBee_GetPacket has just returned
Received(name, r, want) ==
    /\ pc = "returned"
    /\ ret = 1
    /\ dec.fn = "none"
    /\ dec' = [xbp |-> pkt, want |-> want, before |-> OldOuts,
               fn |-> name, ret |-> r.ret, after |-> r.o]
    /\ UNCHANGED <<coreVars, sret, cfg, now, wlog, lifeVars, moreVars>>

Received_ReadRX16Packet ==
    \E want \in Wants : Received("RX16", XBee_ReadRX16Packet(pkt, OldOuts, want), want)

Received_ReadRX64Packet ==
    \E want \in Wants : Received("RX64", XBee_ReadRX64Packet(pkt, OldOuts, want), want)

NextReceived ==
    \/ Serial_Arrive
    \/ Pump_Again
    \/ GetPacket_Loop
    \/ Caller_Reset
    \/ Received_ReadRX16Packet
    \/ Received_ReadRX64Packet

InitReceived == InitRx(ReceivedScenarios)

SpecReceived == InitReceived /\ [][NextReceived]_vars

\* the bytes of a packet of the kind that come before its data
RxFixed(fn) == IF fn = "RX16" THEN 5 ELSE 11

\* C33: for a packet XBee_GetPacket returned, of kind RX16 (RX64), the data
\* length d that XBee_ReadRX16Packet (XBee_ReadRX64Packet) reports satisfies
\* d + 5 (d + 11) = declared length of the frame and
\* 0 <= d <= XBEE_MAX_PACKET_SIZE - 5 (- 11).
C33_DataLength ==
    ( dec.fn \in {"RX16", "RX64"} /\ dec.ret /\ "datalength" \in dec.want )
    => LET d == dec.after.datalength
       IN  /\ d + RxFixed(dec.fn) = last.declared
           /\ 0 <= d
           /\ d <= XBEE_MAX_PACKET_SIZE - RxFixed(dec.fn)

---------------------------------------------------------------------------
(* A task that pumps on its own packet while XBeeTask pumps                *)

\* the task calls XBee_GetPacket, after XBee_ResetPacket if the last call
\* returned 1; the engine is there, XBee_SetActive( 1 ) changes nothing
User_Enter ==
    /\ usr.pc \in {"idle", "returned"}
    /\ usr' = [usr EXCEPT !.pc = "loop",
                          !.pkt = IF usr.pc = "returned" /\ usr.ret = 1
                                  THEN XBee_ResetPacket(usr.pkt) ELSE usr.pkt]
    /\ XBee' = XBee_SetActive1(XBee)
    /\ UNCHANGED <<pkt, rx, wire, pc, ret, last, got, out, dlen, tx, looped, scn,
                   sret, cfg, now, wlog, lifeVars, dec, gact, tsk, mk, sa, snd>>

\* one test of the while condition of the task's call and, if a byte is
\* readable, one iteration on the task's packet
User_Loop ==
    /\ usr.pc = "loop"
    /\ IF rx = <<>>
       THEN /\ usr' = [usr EXCEPT !.pc = "returned", !.ret = 0]
            /\ UNCHANGED rx
       ELSE LET c == Head(rx)
                q == RxByte(usr.pkt, c)
                r == RxResult(usr.pkt, c)
            IN  /\ rx' = Tail(rx)
                /\ usr' = [usr EXCEPT
                             !.pkt = q,
                             !.n = usr.n + 1,
                             !.pc = IF RxReturns(usr.pkt, c) THEN "returned" ELSE "loop",
                             !.ret = IF RxReturns(usr.pkt, c) THEN r ELSE usr.ret,
                             !.got = IF RxReturns(usr.pkt, c) /\ r = 1
                                     THEN Append(usr.got, [length |-> q.length,
                                                           bytes |-> Payload(q)])
                                     ELSE usr.got]
    /\ UNCHANGED <<pkt, wire, pc, ret, last, got, XBee, out, dlen, tx, looped, scn,
                   sret, cfg, now, wlog, lifeVars, dec, gact, tsk, mk, sa, snd>>

NextTwoPumps ==
    \/ NextTask
    \/ User_Enter
    \/ User_Loop

\* the task's call of XBee_GetPacket has started the engine and with it
\* XBeeTask
InitTwoPumps ==
    InitTaskWith([NoUser EXCEPT !.pc = "idle", !.pkt = XBee_ResetPacket(EmptyPacket)],
                 {s \in TaskScenarios : Len(s.stream) <= 6})

SpecTwoPumps == InitTwoPumps /\ [][NextTwoPumps]_vars

\* every byte has been read and neither pump is inside a call
BothDrained ==
    /\ RxDrained
    /\ usr.pc # "loop"
    /\ tsk.pc \in {"ready", "sleeping"}

\* C31: when the stream has been read by the two pumps, each valid frame of
\* it has been returned by one of them, and the bytes of a frame were all
\* read into the same packet.
C31_NoFrameLost ==
    BothDrained
    => /\ Len(got) + Len(usr.got) = Len(scn.expect)
       /\ \A f \in 1..Len(scn.expect) :
             \/ f <= Len(got) /\ got[f] = scn.expect[f]
             \/ f <= Len(usr.got) /\ usr.got[f] = scn.expect[f]
       /\ ( last.n = 0 \/ usr.n = 0 )

---------------------------------------------------------------------------
(* XBee_SendPacket byte by byte, called by several tasks                   *)

\* XBee_SetActive( 1 ), then Serial_SetChar( XBEE_PACKET_STARTBYTE ) and the
\* switch that computes size
Send_Start(c) ==
    /\ snd[c].pc = "out"
    /\ XBee' = XBee_SetActive1(XBee)
    /\ tx' = Append(tx, XBEE_PACKET_STARTBYTE)
    /\ snd' = [snd EXCEPT ![c].pc = "length1",
                          ![c].size = XBee_PayloadSize(snd[c].mem[1], snd[c].d)]
    /\ UNCHANGED <<pkt, rx, wire, pc, ret, last, got, out, dlen, looped, scn,
                   sret, cfg, now, wlog, lifeVars, dec, gact, tsk, mk, sa, usr>>

\* Serial_SetChar( (size >> 8) & 0xFF )
Send_Length1(c) ==
    /\ snd[c].pc = "length1"
    /\ tx' = Append(tx, SendLengthBytes(snd[c].size)[1])
    /\ snd' = [snd EXCEPT ![c].pc = "length2"]
    /\ UNCHANGED <<pkt, rx, wire, pc, ret, last, got, XBee, out, dlen, looped, scn,
                   sret, cfg, now, wlog, lifeVars, dec, gact, tsk, mk, sa, usr>>

\* Serial_SetChar( size & 0xFF ); packet->crc = 0; p = (uint8*)packet
Send_Length2(c) ==
    /\ snd[c].pc = "length2"
    /\ tx' = Append(tx, SendLengthBytes(snd[c].size)[2])
    /\ snd' = [snd EXCEPT ![c].pc = "payload", ![c].crc = 0, ![c].i = 0]
    /\ UNCHANGED <<pkt, rx, wire, pc, ret, last, got, XBee, out, dlen, looped, scn,
                   sret, cfg, now, wlog, lifeVars, dec, gact, tsk, mk, sa, usr>>

\* while( size-- ): one byte of the packet is written and added to crc;
\* after the loop Serial_SetChar( 0xFF - packet->crc ) and the return
Send_Loop(c) ==
    /\ snd[c].pc = "payload"
    /\ IF snd[c].i < snd[c].size
       THEN /\ tx' = Append(tx, snd[c].mem[snd[c].i + 1])
            /\ snd' = [snd EXCEPT ![c].i = snd[c].i + 1,
                                  ![c].crc = (snd[c].crc + snd[c].mem[snd[c].i + 1]) % 256]
       ELSE /\ tx' = Append(tx, (255 - snd[c].crc) % 256)
            /\ snd' = [snd EXCEPT ![c].pc = "done"]
    /\ UNCHANGED <<pkt, rx, wire, pc, ret, last, got, XBee, out, dlen, looped, scn,
                   sret, cfg, now, wlog, lifeVars, dec, gact, tsk, mk, sa, usr>>

NextSenders ==
    \E c \in 1..NumSenders :
        \/ Send_Start(c)
        \/ Send_Length1(c)
        \/ Send_Length2(c)
        \/ Send_Loop(c)

\* the packets the tasks send, each its own: the packet of
\* XBeeConfig_WriteStateToMemory, a transmit status, a TX16 packet with one
\* data byte
SenderPackets ==
    { [mem |-> XBee_CreateATCommandPacket(0, <<87, 82>>, <<>>, 0), d |-> 0],
      [mem |-> Populated(XBEE_TXSTATUS, 1, <<>>), d |-> 0],
      [mem |-> XBee_CreateTX16Packet(1, 4660, 0, <<65>>, 1).mem, d |-> 1] }

InitSenders ==
    /\ pkt = XBee_ResetPacket(EmptyPacket)
    /\ rx = <<>>
    /\ wire = <<>>
    /\ scn = [kind |-> "senders", expect |-> <<>>]
    /\ pc = "idle"
    /\ ret = 0
    /\ last = [n |-> 0, c |-> 0, pre |-> XBee_ResetPacket(EmptyPacket),
               declared |-> 0, w |-> 0]
    /\ got = <<>>
    /\ XBee = Active
    /\ out = NoPacket
    /\ dlen = 0
    /\ tx = <<>>
    /\ looped = 0
    /\ sret = <<>>
    /\ cfg = [pc |-> "idle", wake |-> 0]
    /\ now = 0
    /\ wlog = <<>>
    /\ eng = [running |-> 1, calls |-> 0, fault |-> FALSE]
    /\ acall = NoCall
    /\ dec = NoDecode
    /\ gact = <<>>
    /\ tsk = NoTask
    /\ mk = NoBuild
    /\ sa = NoCallers
    /\ usr = NoUser
    /\ \E ps \in [1..NumSenders -> SenderPackets] :
          snd = [c \in 1..NumSenders |->
                   [NoSenders[c] EXCEPT !.mem = ps[c].mem, !.d = ps[c].d]]

SpecSenders == InitSenders /\ [][NextSenders]_vars

\* the frame around the packet of task c
FrameOf(c) ==
    LET size == XBee_PayloadSize(snd[c].mem[1], snd[c].d)
    IN  Frame(size, SubSeq(snd[c].mem, 1, size))

\* C32: when the calls of two tasks have returned, the line holds the frame
\* of one task followed by the frame of the other.
C32_SendsContiguous ==
    ( snd[1].pc = "done" /\ snd[2].pc = "done" )
    => tx \in { FrameOf(1) \o FrameOf(2), FrameOf(2) \o FrameOf(1) }

=============================================================================
